---- MODULE Spec2Model ----
(***************************************************************************)
(* Status checker: the batch runner (StatusChecker.checkAll), the probe    *)
(* orchestrator (checkUrl / makeRequest) and the check evaluator           *)
(* (CheckEvaluator), as a state machine over the Node.js event loop.       *)
(*                                                                         *)
(* JavaScript values are tagged records: Undef, Num(n), NaN, Str(s).  A    *)
(* string is a sequence of atoms: data strings are sequences of single     *)
(* characters, the literal pieces of a template string are one atom each.  *)
(***************************************************************************)
EXTENDS Integers, Sequences, FiniteSets, TLC

\* ------------------------------------------------------------------ bounds
MaxUrls == 2
MaxClock == 2
MaxChecks == 2
MaxCodes == 2
MaxHeaders == 2
MaxElements == 2
MaxLogs == 3

\* ------------------------------------------------------ program constants
DefaultTimeout == 5000
DefaultSuccessCode == 200
BodyLimit == 1024
ActualValueLimit == 100

\* --------------------------------------------------------------- JS values
Undef == [t |-> "undefined"]
NaN == [t |-> "nan"]
Num(n) == [t |-> "number", n |-> n]
Str(s) == [t |-> "string", s |-> s]
Bool(b) == [t |-> "boolean", b |-> b]

IsUndef(v) == v.t = "undefined"

\* JS truthiness of a value, as used by `a || b`
Truthy(v) ==
  CASE v.t = "undefined" -> FALSE
    [] v.t = "nan" -> FALSE
    [] v.t = "null" -> FALSE
    [] v.t = "number" -> v.n # 0
    [] v.t = "string" -> Len(v.s) > 0
    [] v.t = "boolean" -> v.b
    [] OTHER -> TRUE

\* `a || b`
OrElse(a, b) == IF Truthy(a) THEN a ELSE b

\* ----------------------------------------------------------------- strings
DigitChars == <<"0", "1", "2", "3", "4", "5", "6", "7", "8", "9">>

IsDigit(c) == \E d \in 1..10 : DigitChars[d] = c

DigitValue(c) == (CHOOSE d \in 1..10 : DigitChars[d] = c) - 1

RECURSIVE NatToStr(_)
NatToStr(n) ==
  IF n < 10 THEN <<DigitChars[n + 1]>>
  ELSE NatToStr(n \div 10) \o <<DigitChars[(n % 10) + 1]>>

\* String(n) for an integer n
IntToStr(n) == IF n < 0 THEN <<"-">> \o NatToStr(0 - n) ELSE NatToStr(n)

\* the rendering of a value inside a template string, `${v}`
Render(v) ==
  CASE v.t = "undefined" -> <<"undefined">>
    [] v.t = "nan" -> <<"NaN">>
    [] v.t = "number" -> IntToStr(v.n)
    [] v.t = "string" -> v.s
    [] v.t = "boolean" -> IF v.b THEN <<"true">> ELSE <<"false">>
    [] OTHER -> <<"[object Object]">>

\* Array.prototype.join on a list of strings
RECURSIVE Join(_, _)
Join(parts, sep) ==
  IF Len(parts) = 0 THEN <<>>
  ELSE IF Len(parts) = 1 THEN parts[1]
  ELSE parts[1] \o sep \o Join(Tail(parts), sep)

\* String.prototype.split on a one-character separator
RECURSIVE Split(_, _)
Split(s, sep) ==
  IF \A k \in 1..Len(s) : s[k] # sep THEN <<s>>
  ELSE LET p == CHOOSE k \in 1..Len(s) :
                  s[k] = sep /\ \A j \in 1..(k - 1) : s[j] # sep
       IN <<SubSeq(s, 1, p - 1)>> \o Split(SubSeq(s, p + 1, Len(s)), sep)

RECURSIVE TrimLeft(_)
TrimLeft(s) == IF Len(s) > 0 /\ s[1] = " " THEN TrimLeft(Tail(s)) ELSE s

RECURSIVE TrimRight(_)
TrimRight(s) ==
  IF Len(s) > 0 /\ s[Len(s)] = " " THEN TrimRight(SubSeq(s, 1, Len(s) - 1)) ELSE s

\* String.prototype.trim
Trim(s) == TrimRight(TrimLeft(s))

RECURSIVE DigitsValue(_, _)
DigitsValue(s, acc) ==
  IF Len(s) = 0 \/ ~IsDigit(s[1]) THEN acc
  ELSE DigitsValue(Tail(s), acc * 10 + DigitValue(s[1]))

\* parseInt(s, 10): leading blanks, an optional sign, then the longest run of
\* digits; NaN when there is no digit
ParseInt(s) ==
  LET t == TrimLeft(s)
      neg == Len(t) > 0 /\ t[1] = "-"
      signed == Len(t) > 0 /\ (t[1] = "-" \/ t[1] = "+")
      d == IF signed THEN Tail(t) ELSE t
  IN IF Len(d) = 0 \/ ~IsDigit(d[1]) THEN NaN
     ELSE Num(IF neg THEN 0 - DigitsValue(d, 0) ELSE DigitsValue(d, 0))

\* String.prototype.includes
Includes(s, sub) ==
  \E k \in 0..(Len(s) - Len(sub)) : SubSeq(s, k + 1, k + Len(sub)) = sub

LowerOf(c) ==
  CASE c = "A" -> "a" [] c = "B" -> "b" [] c = "C" -> "c" [] c = "T" -> "t"
    [] c = "X" -> "x" [] OTHER -> c

\* String.prototype.toLowerCase over the model's alphabet
ToLowerCase(s) == [k \in 1..Len(s) |-> LowerOf(s[k])]

TruncateAtLimit(s, limit) ==
  IF Len(s) >= limit THEN SubSeq(s, 1, limit) \o <<"...">> ELSE s

\* s.length > limit ? `${s.substring(0, limit)}...` : s
Truncate(s, limit) ==
  IF Len(s) > limit THEN SubSeq(s, 1, limit) \o <<"...">> ELSE s

\* `x || ''` for an optional string
OrEmpty(v) == IF Truthy(v) THEN v.s ELSE <<>>

\* an array value; every array is truthy
Arr(a) == [t |-> "array", a |-> a]

\* ----------------------------------------------------- regular expressions
\* A pattern is a sequence of elements, each matching one character: a
\* literal character, or the class "[0-9]".  The element "[" is an
\* unterminated character class, which `new RegExp` refuses to compile.
RegExpCompiles(p) == \A k \in 1..Len(p) : p[k] # "["

RegExpError(p) ==
  <<"Invalid regular expression: /">> \o p \o <<"/: Unterminated character class">>

ElementMatches(e, c) == IF e = "[0-9]" THEN IsDigit(c) ELSE e = c

\* RegExp.prototype.test: an unanchored search
RegExpTest(p, s) ==
  \E k \in 0..(Len(s) - Len(p)) :
    \A j \in 1..Len(p) : ElementMatches(p[j], s[k + j])

\* -------------------------------------------------------------- JSON values
\* A parsed JSON document: a string, number, boolean or null, an array
\* (Arr) of documents, or an object: a sequence of members [k, v] in
\* insertion order.
Null == [t |-> "null"]
Obj(m) == [t |-> "object", m |-> m]

IsNullish(v) == v.t = "undefined" \/ v.t = "null"

\* typeof v === 'object'
TypeofObject(v) == v.t = "null" \/ v.t = "array" \/ v.t = "object"

Quote == "\""

TrueText == <<"t", "r", "u", "e">>
FalseText == <<"f", "a", "l", "s", "e">>
NullText == <<"n", "u", "l", "l">>
UndefinedText == <<"u", "n", "d", "e", "f", "i", "n", "e", "d">>
NaNText == <<"N", "a", "N">>
ObjectText ==
  <<"[", "o", "b", "j", "e", "c", "t", " ", "O", "b", "j", "e", "c", "t", "]">>
LengthText == <<"l", "e", "n", "g", "t", "h">>

\* the outcome of a parsing step: the value read and the position after it
JsonFail == [ok |-> FALSE, v |-> Undef, p |-> 1]
JsonOk(v, p) == [ok |-> TRUE, v |-> v, p |-> p]

\* the first position from p on that holds no blank
SkipWs(s, p) ==
  CHOOSE q \in p..(Len(s) + 1) :
    /\ q > Len(s) \/ s[q] # " "
    /\ \A j \in p..(q - 1) : s[j] = " "

StartsAt(s, p, w) ==
  p + Len(w) - 1 <= Len(s) /\ SubSeq(s, p, p + Len(w) - 1) = w

RECURSIVE DigitRun(_, _)
DigitRun(s, p) == IF p <= Len(s) /\ IsDigit(s[p]) THEN DigitRun(s, p + 1) ELSE p

\* a JSON number of the model's alphabet: "-"? ("0" | digit+), no fraction
JsonNumber(s, p) ==
  LET neg == p <= Len(s) /\ s[p] = "-"
      d == IF neg THEN p + 1 ELSE p
      e == IF d <= Len(s) /\ s[d] = "0" THEN d + 1 ELSE DigitRun(s, d)
      n == DigitsValue(SubSeq(s, d, e - 1), 0)
  IN IF e = d THEN JsonFail ELSE JsonOk(Num(IF neg THEN 0 - n ELSE n), e)

\* a JSON string of the model's alphabet: no escape sequences
JsonString(s, p) ==
  LET closes == {q \in (p + 1)..Len(s) : s[q] = Quote}
  IN IF p > Len(s) \/ s[p] # Quote \/ closes = {} THEN JsonFail
     ELSE LET q == CHOOSE q \in closes : \A r \in closes : q <= r
          IN JsonOk(Str(SubSeq(s, p + 1, q - 1)), q + 1)

\* obj[k] = v: a repeated key keeps its place and takes the later value
SetProp(m, k, v) ==
  IF \E j \in 1..Len(m) : m[j].k = k
  THEN [j \in 1..Len(m) |-> IF m[j].k = k THEN [k |-> k, v |-> v] ELSE m[j]]
  ELSE Append(m, [k |-> k, v |-> v])

\* a scalar at p: a string, a literal or a number
JsonScalar(s, p) ==
  IF s[p] = Quote THEN JsonString(s, p)
  ELSE IF StartsAt(s, p, TrueText) THEN JsonOk(Bool(TRUE), p + 4)
  ELSE IF StartsAt(s, p, FalseText) THEN JsonOk(Bool(FALSE), p + 5)
  ELSE IF StartsAt(s, p, NullText) THEN JsonOk(Null, p + 4)
  ELSE JsonNumber(s, p)

\* the arrays and objects that are open at a position of the text, innermost
\* last: the elements or members read so far and the key being read
ArrayFrame(items) == [kind |-> "array", items |-> items]
ObjectFrame(members, key) == [kind |-> "object", members |-> members, key |-> key]

Push(stack, frame) == Append(stack, frame)
Pop(stack) == SubSeq(stack, 1, Len(stack) - 1)
Top(stack) == stack[Len(stack)]

\* the innermost open array or object with the value v added to it
WithValue(stack, v) ==
  IF Top(stack).kind = "array"
  THEN Push(Pop(stack), ArrayFrame(Append(Top(stack).items, v)))
  ELSE Push(Pop(stack),
            ObjectFrame(SetProp(Top(stack).members, Top(stack).key, v), <<>>))

\* the innermost open array or object as a value
Closed(frame) ==
  IF frame.kind = "array" THEN Arr(frame.items) ELSE Obj(frame.members)

Closer(frame) == IF frame.kind = "array" THEN "]" ELSE "}"

\* The state of the parser: the position it reads from, the arrays and
\* objects that are open, the value v it has read last, and its mode: in
\* mode "value" it expects a value, in mode "key" a member (string ":"
\* value), in mode "after" it has read v and expects "," or the closing
\* bracket of the innermost array or object, or the end of the text when
\* none is open.
ScanState(p, stack, mode, v) == [p |-> p, stack |-> stack, mode |-> mode, v |-> v]

ScanFail == ScanState(1, <<>>, "fail", Undef)

\* mode "after", the next character that is no blank being at p
AfterStep(s, st, p) ==
  IF Len(st.stack) = 0
  THEN IF p = Len(s) + 1 THEN ScanState(p, <<>>, "done", st.v) ELSE ScanFail
  ELSE IF p > Len(s) THEN ScanFail
  ELSE IF s[p] = ","
  THEN ScanState(p + 1, WithValue(st.stack, st.v),
                 IF Top(st.stack).kind = "array" THEN "value" ELSE "key", st.v)
  ELSE IF s[p] = Closer(Top(st.stack))
  THEN ScanState(p + 1, Pop(st.stack), "after",
                 Closed(Top(WithValue(st.stack, st.v))))
  ELSE ScanFail

\* mode "key", the key k having been read and the next character that is no
\* blank being at c
KeyStep(s, st, k, c) ==
  IF k.ok /\ c <= Len(s) /\ s[c] = ":"
  THEN ScanState(c + 1,
                 Push(Pop(st.stack), ObjectFrame(Top(st.stack).members, k.v.s)),
                 "value", st.v)
  ELSE ScanFail

KeyRead(s, st, k) == KeyStep(s, st, k, SkipWs(s, k.p))

\* mode "value" at an opening bracket at p, the next character that is no
\* blank being at q
OpenStep(s, st, p, q) ==
  IF q <= Len(s) /\ s[q] = (IF s[p] = "[" THEN "]" ELSE "}")
  THEN ScanState(q + 1, st.stack, "after",
                 IF s[p] = "[" THEN Arr(<<>>) ELSE Obj(<<>>))
  ELSE IF s[p] = "["
  THEN ScanState(p + 1, Push(st.stack, ArrayFrame(<<>>)), "value", st.v)
  ELSE ScanState(p + 1, Push(st.stack, ObjectFrame(<<>>, <<>>)), "key", st.v)

\* mode "value", the scalar r having been read
ScalarStep(st, r) ==
  IF r.ok THEN ScanState(r.p, st.stack, "after", r.v) ELSE ScanFail

\* one step of the parser, the next character that is no blank being at p
JsonStepAt(s, st, p) ==
  IF st.mode = "after" THEN AfterStep(s, st, p)
  ELSE IF p > Len(s) THEN ScanFail
  ELSE IF st.mode = "key" THEN KeyRead(s, st, JsonString(s, p))
  ELSE IF s[p] \in {"[", "{"} THEN OpenStep(s, st, p, SkipWs(s, p + 1))
  ELSE ScalarStep(st, JsonScalar(s, p))

JsonStep(s, st) == JsonStepAt(s, st, SkipWs(s, st.p))

RECURSIVE JsonScan(_, _)
JsonScan(s, st) ==
  IF st.mode = "done" THEN JsonOk(st.v, st.p)
  ELSE IF st.mode = "fail" THEN JsonFail
  ELSE JsonScan(s, JsonStep(s, st))

\* JSON.parse: one value and nothing after it, or a SyntaxError
JsonParse(text) == JsonScan(text, ScanState(1, <<>>, "value", Undef))

\* the message of the SyntaxError (its wording depends on the input and on
\* the engine; only its being non-empty matters to the evaluator)
JsonSyntaxError == <<"Unexpected token in JSON">>

\* JSON.stringify of a parsed document
RECURSIVE JsonStringify(_)
JsonStringify(v) ==
  CASE v.t = "string" -> <<Quote>> \o v.s \o <<Quote>>
    [] v.t = "number" -> IntToStr(v.n)
    [] v.t = "boolean" -> IF v.b THEN TrueText ELSE FalseText
    [] v.t = "null" -> NullText
    [] v.t = "array" ->
         <<"[">> \o Join([k \in 1..Len(v.a) |-> JsonStringify(v.a[k])], <<",">>)
                 \o <<"]">>
    [] v.t = "object" ->
         <<"{">> \o Join([k \in 1..Len(v.m) |->
                            <<Quote>> \o v.m[k].k \o <<Quote, ":">>
                                      \o JsonStringify(v.m[k].v)], <<",">>)
                 \o <<"}">>

\* String(v)
RECURSIVE ToStr(_)
ToStr(v) ==
  CASE v.t = "undefined" -> UndefinedText
    [] v.t = "null" -> NullText
    [] v.t = "nan" -> NaNText
    [] v.t = "number" -> IntToStr(v.n)
    [] v.t = "string" -> v.s
    [] v.t = "boolean" -> IF v.b THEN TrueText ELSE FalseText
    [] v.t = "array" ->
         Join([k \in 1..Len(v.a) |->
                 IF IsNullish(v.a[k]) THEN <<>> ELSE ToStr(v.a[k])], <<",">>)
    [] v.t = "object" -> ObjectText

\* Number(s) for a string of the model's alphabet (no fraction, exponent or
\* radix prefix): blanks trimmed, "" is 0, a signed run of digits is its
\* value, anything else NaN
TrimmedToNumber(t) ==
  IF Len(t) = 0 THEN Num(0)
  ELSE IF \E k \in 1..Len(t) : ~IsDigit(t[k]) /\ ~(k = 1 /\ t[k] \in {"-", "+"})
  THEN NaN
  ELSE IF t = <<"-">> \/ t = <<"+">> THEN NaN
  ELSE IF t[1] = "-" THEN Num(0 - DigitsValue(Tail(t), 0))
  ELSE IF t[1] = "+" THEN Num(DigitsValue(Tail(t), 0))
  ELSE Num(DigitsValue(t, 0))

StringToNumber(s) == TrimmedToNumber(Trim(s))

\* Number(v)
ToNumber(v) ==
  CASE v.t = "undefined" -> NaN
    [] v.t = "null" -> Num(0)
    [] v.t = "nan" -> NaN
    [] v.t = "number" -> v
    [] v.t = "string" -> StringToNumber(v.s)
    [] v.t = "boolean" -> Num(IF v.b THEN 1 ELSE 0)
    [] v.t = "array" -> StringToNumber(ToStr(v))
    [] v.t = "object" -> NaN

\* a > b on numbers: false when either side is NaN
GreaterThan(a, b) == a.t = "number" /\ b.t = "number" /\ a.n > b.n
LessThan(a, b) == a.t = "number" /\ b.t = "number" /\ a.n < b.n

\* --------------------------------------------------------- check evaluator
\* the outcome of a try block: the passed flag and the caught error message
Outcome(passed, error) == [passed |-> passed, error |-> error]

\* `error || undefined`
ErrorOrUndef(e) == IF Len(e) > 0 THEN Str(e) ELSE Undef

\* --------------------------------------------------------- value comparator
\* the operators that compare the text String(actual)
CompareText(text, operator, expected, pattern) ==
  CASE operator = "equals" -> Outcome(Str(text) = expected, <<>>)
    [] operator = "not_equals" -> Outcome(Str(text) # expected, <<>>)
    [] operator = "contains" -> Outcome(Includes(text, pattern), <<>>)
    [] operator = "not_contains" -> Outcome(~Includes(text, pattern), <<>>)
    [] operator = "matches" ->
         IF RegExpCompiles(pattern)
         THEN Outcome(RegExpTest(pattern, text), <<>>)
         ELSE Outcome(FALSE, RegExpError(pattern))
    [] operator = "not_matches" ->
         IF RegExpCompiles(pattern)
         THEN Outcome(~RegExpTest(pattern, text), <<>>)
         ELSE Outcome(FALSE, RegExpError(pattern))

\* the operators that compare Number(actual) with Number(expected)
CompareNumbers(a, operator, b) ==
  Outcome(IF operator = "greater_than" THEN GreaterThan(a, b) ELSE LessThan(a, b),
          <<>>)

CompareValuesNotExistsFalsy(actual, operator, expected) ==
  CASE operator = "exists" -> Outcome(~IsNullish(actual), <<>>)
    [] operator = "not_exists" -> Outcome(actual \in {Str(<<>>), Num(0)}, <<>>)
    [] operator \in {"greater_than", "less_than"} ->
         CompareNumbers(ToNumber(actual), operator, ToNumber(expected))
    [] operator \in {"equals", "not_equals", "contains", "not_contains",
                     "matches", "not_matches"} ->
         CompareText(ToStr(actual), operator, expected, OrEmpty(expected))
    [] OTHER -> Outcome(FALSE, <<>>)

\* compareValues: the verdict, or the message of the error `new RegExp`
\* throws on a pattern that does not compile
CompareValues(actual, operator, expected) ==
  CASE operator = "exists" -> Outcome(~IsNullish(actual), <<>>)
    [] operator = "not_exists" -> Outcome(IsNullish(actual), <<>>)
    [] operator \in {"greater_than", "less_than"} ->
         CompareNumbers(ToNumber(actual), operator, ToNumber(expected))
    [] operator \in {"equals", "not_equals", "contains", "not_contains",
                     "matches", "not_matches"} ->
         CompareText(ToStr(actual), operator, expected, OrEmpty(expected))
    [] OTHER -> Outcome(FALSE, <<>>)

\* ------------------------------------------------------------ check types
StatusCodesUnsplit(value) == <<ParseInt(Trim(value))>>

\* value.split('|').map(code => parseInt(code.trim(), 10))
StatusCodes(value) ==
  LET segs == Split(value, "|")
  IN [k \in 1..Len(segs) |-> ParseInt(Trim(segs[k]))]

ArrayIncludes(a, v) == \E k \in 1..Len(a) : a[k] = v

EvaluateStatusCodeCheck(check, response) ==
  LET statusCode == response.statusCode
      operator == check.operator
      value == check.value.s
      o == CASE operator = "equals" ->
                  Outcome(ArrayIncludes(StatusCodes(value), Num(statusCode)), <<>>)
             [] operator = "not_equals" ->
                  Outcome(~ArrayIncludes(StatusCodes(value), Num(statusCode)), <<>>)
             [] operator = "matches" ->
                  IF RegExpCompiles(value)
                  THEN Outcome(RegExpTest(value, IntToStr(statusCode)), <<>>)
                  ELSE Outcome(FALSE, RegExpError(value))
             [] operator = "not_matches" ->
                  IF RegExpCompiles(value)
                  THEN Outcome(~RegExpTest(value, IntToStr(statusCode)), <<>>)
                  ELSE Outcome(FALSE, RegExpError(value))
             [] OTHER -> Outcome(FALSE, <<>>)
  IN [type |-> "status_code",
      description |-> <<"Status code ", operator, " ">> \o value,
      passed |-> o.passed,
      error |-> ErrorOrUndef(o.error),
      actualValue |-> Num(statusCode),
      expectedValue |-> check.value]

FindHeaderExactCase(headers, name) ==
  LET hits == {k \in 1..Len(headers) : headers[k].k = name}
  IN IF hits = {} THEN Undef
     ELSE Str(headers[CHOOSE k \in hits : \A j \in hits : k <= j].v)

\* the value of the first response header whose lowercased key is the
\* lowercased name, or undefined
FindHeader(headers, name) ==
  LET headerName == ToLowerCase(name)
      hits == {k \in 1..Len(headers) : ToLowerCase(headers[k].k) = headerName}
  IN IF hits = {} THEN Undef
     ELSE Str(headers[CHOOSE k \in hits : \A j \in hits : k <= j].v)

EvaluateHeaderCheckByComparator(check, response) ==
  LET headerValue == FindHeader(response.headers, check.name)
      o == CompareValues(headerValue, check.operator, check.value)
  IN [type |-> "header",
      description |-> <<"Header ">> \o check.name
                        \o <<" ", check.operator, " ">> \o OrEmpty(check.value),
      passed |-> o.passed,
      error |-> ErrorOrUndef(o.error),
      actualValue |-> headerValue,
      expectedValue |-> check.value]

EvaluateHeaderCheck(check, response) ==
  LET operator == check.operator
      value == check.value
      headerValue == FindHeader(response.headers, check.name)
      found == ~IsUndef(headerValue)
      pattern == OrEmpty(value)
      o == CASE operator = "exists" -> Outcome(found, <<>>)
             [] operator = "not_exists" -> Outcome(~found, <<>>)
             [] operator = "equals" -> Outcome(headerValue = value, <<>>)
             [] operator = "not_equals" -> Outcome(headerValue # value, <<>>)
             [] operator = "contains" ->
                  Outcome(found /\ Includes(headerValue.s, pattern), <<>>)
             [] operator = "not_contains" ->
                  Outcome(~found \/ ~Includes(headerValue.s, pattern), <<>>)
             [] operator = "matches" ->
                  IF RegExpCompiles(pattern)
                  THEN Outcome(found /\ RegExpTest(pattern, headerValue.s), <<>>)
                  ELSE Outcome(FALSE, RegExpError(pattern))
             [] operator = "not_matches" ->
                  IF RegExpCompiles(pattern)
                  THEN Outcome(~found \/ ~RegExpTest(pattern, headerValue.s), <<>>)
                  ELSE Outcome(FALSE, RegExpError(pattern))
             [] OTHER -> Outcome(FALSE, <<>>)
  IN [type |-> "header",
      description |-> <<"Header ">> \o check.name \o <<" ", operator, " ">> \o pattern,
      passed |-> o.passed,
      error |-> ErrorOrUndef(o.error),
      actualValue |-> headerValue,
      expectedValue |-> value]

EvaluateBodyCheckByComparator(check, response) ==
  LET body == response.body
      o == IF check.operator = "exists" THEN Outcome(Len(body) > 0, <<>>)
           ELSE IF check.operator = "not_exists" THEN Outcome(Len(body) = 0, <<>>)
           ELSE CompareValues(Str(body), check.operator, check.value)
  IN [type |-> "body",
      description |-> <<"Body ", check.operator, " ">> \o OrEmpty(check.value),
      passed |-> o.passed,
      error |-> ErrorOrUndef(o.error),
      actualValue |-> Str(Truncate(body, ActualValueLimit)),
      expectedValue |-> check.value]

EvaluateBodyCheck(check, response) ==
  LET body == response.body
      operator == check.operator
      value == check.value
      pattern == OrEmpty(value)
      o == CASE operator = "exists" -> Outcome(Len(body) > 0, <<>>)
             [] operator = "not_exists" -> Outcome(Len(body) = 0, <<>>)
             [] operator = "equals" -> Outcome(Str(body) = value, <<>>)
             [] operator = "not_equals" -> Outcome(Str(body) # value, <<>>)
             [] operator = "contains" -> Outcome(Includes(body, pattern), <<>>)
             [] operator = "not_contains" -> Outcome(~Includes(body, pattern), <<>>)
             [] operator = "matches" ->
                  IF RegExpCompiles(pattern)
                  THEN Outcome(RegExpTest(pattern, body), <<>>)
                  ELSE Outcome(FALSE, RegExpError(pattern))
             [] operator = "not_matches" ->
                  IF RegExpCompiles(pattern)
                  THEN Outcome(~RegExpTest(pattern, body), <<>>)
                  ELSE Outcome(FALSE, RegExpError(pattern))
             [] OTHER -> Outcome(FALSE, <<>>)
  IN [type |-> "body",
      description |-> <<"Body ", operator, " ">> \o pattern,
      passed |-> o.passed,
      error |-> ErrorOrUndef(o.error),
      actualValue |-> Str(Truncate(body, ActualValueLimit)),
      expectedValue |-> value]

\* ------------------------------------------------------ JSON path extractor
\* the characters of the model's alphabet that \w does not match
NonWordChars ==
  {"[", "]", ".", "$", " ", "-", "+", "*", ",", ":", "{", "}", "|", Quote}

IsWordChar(c) == c \notin NonWordChars

RECURSIVE WordRun(_, _)
WordRun(s, p) == IF p <= Len(s) /\ IsWordChar(s[p]) THEN WordRun(s, p + 1) ELSE p

\* s.replace(/\[(\w+)\]/g, '.$1')
RECURSIVE BracketsToDots(_)
BracketsToDots(s) ==
  IF Len(s) = 0 THEN <<>>
  ELSE LET e == WordRun(s, 2)
       IN IF s[1] = "[" /\ e > 2 /\ e <= Len(s) /\ s[e] = "]"
          THEN <<".">> \o SubSeq(s, 2, e - 1)
                       \o BracketsToDots(SubSeq(s, e + 1, Len(s)))
          ELSE <<s[1]>> \o BracketsToDots(Tail(s))

\* s.replace(/^\./, '')
DropLeadingDot(s) == IF Len(s) > 0 /\ s[1] = "." THEN Tail(s) ELSE s

PathSegmentsBracketsKept(path) ==
  Split(DropLeadingDot(IF Len(path) > 0 /\ path[1] = "$" THEN Tail(path) ELSE path),
        ".")

PathSegments(path) ==
  LET normalizedPath == IF Len(path) > 0 /\ path[1] = "$" THEN Tail(path) ELSE path
  IN Split(DropLeadingDot(BracketsToDots(normalizedPath)), ".")

\* a canonical array index: "0", or digits without a leading zero
IsIndex(seg) ==
  /\ Len(seg) > 0
  /\ \A k \in 1..Len(seg) : IsDigit(seg[k])
  /\ (Len(seg) = 1 \/ seg[1] # "0")

\* current[segment] for the properties a parsed document has of its own:
\* the members of an object, the elements and the length of an array, the
\* characters and the length of a string
GetProp(current, segment) ==
  CASE current.t = "object" ->
         IF \E j \in 1..Len(current.m) : current.m[j].k = segment
         THEN current.m[CHOOSE j \in 1..Len(current.m) : current.m[j].k = segment].v
         ELSE Undef
    [] current.t = "array" ->
         IF IsIndex(segment) /\ DigitsValue(segment, 0) < Len(current.a)
         THEN current.a[DigitsValue(segment, 0) + 1]
         ELSE IF segment = LengthText THEN Num(Len(current.a))
         ELSE Undef
    [] current.t = "string" ->
         IF IsIndex(segment) /\ DigitsValue(segment, 0) < Len(current.s)
         THEN Str(<<current.s[DigitsValue(segment, 0) + 1]>>)
         ELSE IF segment = LengthText THEN Num(Len(current.s))
         ELSE Undef
    [] OTHER -> Undef

RECURSIVE Traverse(_, _)
Traverse(current, segments) ==
  IF Len(segments) = 0 THEN current
  ELSE IF IsNullish(current) THEN Undef
  ELSE Traverse(GetProp(current, Head(segments)), Tail(segments))

ExtractJsonPath(json, path) == Traverse(json, PathSegments(path))

\* array[index] for an index the check gives as a number
ElementAt(array, index) ==
  IF index >= 0 /\ index < Len(array) THEN array[index + 1] ELSE Undef

\* the element the check selects: a number, "first" or "last"
SelectElementLastOffByOne(array, element) ==
  CASE element.t = "number" -> ElementAt(array, element.n)
    [] element = Str(<<"first">>) -> ElementAt(array, 0)
    [] element = Str(<<"last">>) -> ElementAt(array, Len(array))
    [] OTHER -> Null

SelectElement(array, element) ==
  CASE element.t = "number" -> ElementAt(array, element.n)
    [] element = Str(<<"first">>) -> ElementAt(array, 0)
    [] element = Str(<<"last">>) -> ElementAt(array, Len(array) - 1)
    [] OTHER -> Null

AnyHoldsFirstOnly(results) == Len(results) > 0 /\ results[1]

\* results.some(result => result)
AnyHolds(results) == \E k \in 1..Len(results) : results[k]

AllHoldNonEmpty(results) ==
  Len(results) > 0 /\ \A k \in 1..Len(results) : results[k]

\* results.every(result => result)
AllHold(results) == \A k \in 1..Len(results) : results[k]

\* the result of a jsonpath check; named is the element when the
\* description names it
JsonPathResult(check, named, passed, error, actualValue) ==
  [type |-> "jsonpath",
   description |-> <<"JSON path ">> \o check.path \o named
                     \o <<" ", check.operator, " ">> \o OrEmpty(check.value),
   passed |-> passed,
   error |-> error,
   actualValue |-> actualValue,
   expectedValue |-> check.value]

\* typeof actualValue === 'object' ? JSON.stringify(actualValue) : actualValue
DisplayValue(v) == IF TypeofObject(v) THEN Str(JsonStringify(v)) ELSE v

\* element any or all: outcomes are the comparisons of the elements; the
\* first one that throws is caught, with actualValue still null
OnEachElement(check, element, array, outcomes) ==
  LET thrown == {k \in 1..Len(outcomes) : Len(outcomes[k].error) > 0}
      results == [k \in 1..Len(outcomes) |-> outcomes[k].passed]
  IN IF thrown = {}
     THEN JsonPathResult(check, <<" ">> \o element.s,
                         IF element = Str(<<"any">>) THEN AnyHolds(results)
                         ELSE AllHold(results),
                         Undef, Str(JsonStringify(Arr(array))))
     ELSE JsonPathResult(check, <<>>, FALSE,
                         Str(outcomes[CHOOSE k \in thrown :
                                        \A j \in thrown : k <= j].error),
                         Str(NullText))

\* the comparison of the value the check is about
OnCompared(check, actualValue, compared) ==
  JsonPathResult(check, <<>>, compared.passed, ErrorOrUndef(compared.error),
                 DisplayValue(actualValue))

OnActualValue(check, actualValue) ==
  OnCompared(check, actualValue,
             CompareValues(actualValue, check.operator, check.value))

OnSelectedUnrendered(check, selected) == OnActualValue(check, selected)

\* for contains and not_contains an array or object is compared as its JSON
\* rendering
OnSelected(check, selected) ==
  OnActualValue(check,
                IF /\ check.operator \in {"contains", "not_contains"}
                   /\ selected.t \in {"array", "object"}
                THEN Str(JsonStringify(selected))
                ELSE selected)

OnExtracted(check, element, extractedValue) ==
  IF extractedValue.t = "array" /\ element \in {Str(<<"any">>), Str(<<"all">>)}
  THEN OnEachElement(check, element, extractedValue.a,
                     [k \in 1..Len(extractedValue.a) |->
                        CompareValues(extractedValue.a[k], check.operator,
                                      check.value)])
  ELSE OnSelected(check,
                  IF extractedValue.t = "array"
                  THEN SelectElement(extractedValue.a, element)
                  ELSE extractedValue)

\* a body that does not parse is caught, with actualValue still null
OnParsed(check, element, parsed) ==
  IF parsed.ok
  THEN OnExtracted(check, element, ExtractJsonPath(parsed.v, check.path))
  ELSE JsonPathResult(check, <<>>, FALSE, Str(JsonSyntaxError), Str(NullText))

EvaluateJsonPathCheck(check, response) ==
  OnParsed(check,
           IF IsUndef(check.element) THEN Str(<<"first">>) ELSE check.element,
           JsonParse(response.body))

EvaluateResponseTimeCheck(check, response) ==
  LET responseTime == response.responseTime
      operator == check.operator
      value == check.value.n
      passed == CASE operator = "less_than" -> responseTime < value
                  [] operator = "greater_than" -> responseTime > value
                  [] OTHER -> FALSE
  IN [type |-> "response_time",
      description |-> <<"Response time ", operator, " ">> \o IntToStr(value) \o <<"ms">>,
      passed |-> passed,
      error |-> Undef,
      actualValue |-> Num(responseTime),
      expectedValue |-> check.value]

UnknownCheckResult(check) ==
  [type |-> "unknown",
   description |-> <<"Unknown check type">>,
   passed |-> FALSE,
   error |-> Str(<<"Unknown check type: ", check.type>>),
   actualValue |-> Undef,
   expectedValue |-> Undef]

EvaluateCheck(check, response) ==
  CASE check.type = "status_code" -> EvaluateStatusCodeCheck(check, response)
    [] check.type = "header" -> EvaluateHeaderCheck(check, response)
    [] check.type = "body" -> EvaluateBodyCheck(check, response)
    [] check.type = "jsonpath" -> EvaluateJsonPathCheck(check, response)
    [] check.type = "response_time" -> EvaluateResponseTimeCheck(check, response)
    [] OTHER -> UnknownCheckResult(check)

EvaluateChecksReversed(checks, response) ==
  [k \in 1..Len(checks) |-> EvaluateCheck(checks[Len(checks) + 1 - k], response)]

\* checks.map(check => this.evaluateCheck(check, response))
EvaluateChecks(checks, response) ==
  [k \in 1..Len(checks) |-> EvaluateCheck(checks[k], response)]

\* -------------------------------------------------------- probe orchestrator
\* new URL(url): the strings the URL parser accepts
ValidUrls == {"https://example.com", "https://httpstat.us/404",
              "https://this-domain-does-not-exist-123456789.com"}

UrlParses(url) == url \in ValidUrls

InvalidUrlMessage == <<"Invalid URL">>

\* urlConfig.timeout || this.config.globalTimeout || 5000
EffectiveTimeout(urlConfig, cfg) ==
  OrElse(urlConfig.timeout, OrElse(cfg.globalTimeout, Num(DefaultTimeout)))

TimeoutMessage(timeout) ==
  <<"Request timed out after ">> \o Render(timeout) \o <<"ms">>

\* this.config.globalSuccessCodes || urlConfig.successCodes || [200]
EffectiveSuccessCodesGlobalFirst(urlConfig, cfg) ==
  OrElse(cfg.globalSuccessCodes,
         OrElse(urlConfig.successCodes, Arr(<<DefaultSuccessCode>>)))

\* urlConfig.successCodes || this.config.globalSuccessCodes || [200]
EffectiveSuccessCodes(urlConfig, cfg) ==
  OrElse(urlConfig.successCodes,
         OrElse(cfg.globalSuccessCodes, Arr(<<DefaultSuccessCode>>)))

\* successCodes.join('|')
JoinCodes(codes) == Join([k \in 1..Len(codes) |-> IntToStr(codes[k])], <<"|">>)

DefaultStatusCodeCheck(urlConfig, cfg) ==
  [type |-> "status_code",
   operator |-> "equals",
   value |-> Str(JoinCodes(EffectiveSuccessCodes(urlConfig, cfg).a))]

\* urlConfig.checks
ChecksProvidedAnyList(urlConfig) == Truthy(urlConfig.checks)

\* urlConfig.checks && urlConfig.checks.length > 0
ChecksProvided(urlConfig) ==
  Truthy(urlConfig.checks) /\ Len(urlConfig.checks.a) > 0

EffectiveChecks(urlConfig, cfg) ==
  IF ChecksProvided(urlConfig) THEN urlConfig.checks.a
  ELSE <<DefaultStatusCodeCheck(urlConfig, cfg)>>

\* checkResults.some(result => result.passed)
SomePassed(checkResults) == \E k \in 1..Len(checkResults) : checkResults[k].passed

\* checkResults.every(result => result.passed)
AllPassed(checkResults) == \A k \in 1..Len(checkResults) : checkResults[k].passed

FailedEntry(check) ==
  check.description \o <<" - Expected: ">> \o Render(check.expectedValue)
    \o <<", Actual: ">> \o Render(check.actualValue)

FailedChecksUnfiltered(checkResults) == checkResults

\* checkResults.filter(result => !result.passed)
FailedChecks(checkResults) ==
  LET Failed(r) == ~r.passed IN SelectSeq(checkResults, Failed)

FailedMessage(checkResults) ==
  LET failedChecks == FailedChecks(checkResults)
  IN Join([k \in 1..Len(failedChecks) |-> FailedEntry(failedChecks[k])], <<"; ">>)

\* the try branch of checkUrl: the request promise was fulfilled with response
\* the result of a probe whose checks gave checkResults
ResultWithChecks(urlConfig, response, responseTime, timestamp, checkResults) ==
  [url |-> urlConfig.url,
   name |-> urlConfig.name,
   statusCode |-> Num(response.statusCode),
   headers |-> Arr(response.headers),
   body |-> Str(Truncate(response.body, BodyLimit)),
   responseTime |-> responseTime,
   timestamp |-> timestamp,
   success |-> AllPassed(checkResults),
   checkResults |-> Arr(checkResults),
   error |-> IF AllPassed(checkResults) THEN Undef
             ELSE Str(FailedMessage(checkResults))]

SuccessResult(urlConfig, cfg, response, responseTime, timestamp) ==
  ResultWithChecks(urlConfig, response, responseTime, timestamp,
                   EvaluateChecks(EffectiveChecks(urlConfig, cfg),
                                  [statusCode |-> response.statusCode,
                                   headers |-> response.headers,
                                   body |-> response.body,
                                   responseTime |-> responseTime]))

FailureResultWithChecks(urlConfig, message, responseTime, timestamp) ==
  [url |-> urlConfig.url,
   name |-> urlConfig.name,
   statusCode |-> Undef,
   headers |-> Undef,
   body |-> Undef,
   responseTime |-> responseTime,
   timestamp |-> timestamp,
   success |-> FALSE,
   checkResults |-> Arr(<<>>),
   error |-> Str(message)]

\* the catch branch of checkUrl: the request promise was rejected with message
FailureResult(urlConfig, message, responseTime, timestamp) ==
  [url |-> urlConfig.url,
   name |-> urlConfig.name,
   statusCode |-> Undef,
   headers |-> Undef,
   body |-> Undef,
   responseTime |-> responseTime,
   timestamp |-> timestamp,
   success |-> FALSE,
   checkResults |-> Undef,
   error |-> Str(message)]

\* -------------------------------------------------------------- promises
Unborn == [state |-> "none"]
Pending == [state |-> "pending"]
Fulfilled(v) == [state |-> "fulfilled", value |-> v]
Rejected(e) == [state |-> "rejected", reason |-> e]

IsSettled(p) == p.state \in {"fulfilled", "rejected"}

\* resolve(v) / reject(e) on a promise: only the first call has an effect
SettleAgain(p, outcome) == outcome

Settle(p, outcome) == IF p.state = "pending" THEN outcome ELSE p

\* what the promise returned by checkUrl settles to once the request promise
\* has settled: both branches return a result, neither rethrows
CheckUrlSettle(urlConfig, cfg, request, responseTime, timestamp) ==
  IF request.state = "fulfilled"
  THEN Fulfilled(SuccessResult(urlConfig, cfg, request.value, responseTime, timestamp))
  ELSE Fulfilled(FailureResult(urlConfig, request.reason, responseTime, timestamp))

\* ------------------------------------------------------------------ state
VARIABLES
  config,        \* the Config: urls, globalTimeout, globalSuccessCodes
  async,         \* options.async
  transport,     \* per URL, what the network does with its request
  now,           \* Date.now(), in ms since checkAll was called
  batch,         \* the promise returned by checkAll
  batchValue,    \* the array checkAll resolved with
  results,       \* the results array of checkAllSync
  cursor,        \* the URL whose checkUrl checkAllSync is awaiting
  startTime,     \* per URL, startTime of its checkUrl call
  req,           \* per URL, its http.ClientRequest
  reqPromise,    \* per URL, the promise returned by makeRequest
  probePromise,  \* per URL, the promise returned by checkUrl
  run,           \* 1: first checker over config, 2: second checker, other mode
  prevValue,     \* the array the first checker's checkAll resolved with
  headersObjects, \* the headers objects the URL entries refer to
  sent,          \* the requests handed to http.request, in order
  evalChecks,    \* the checks an evaluator test hands to evaluateChecks
  mockResponse,  \* the response an evaluator test hands to evaluateChecks
  evalOutcome,   \* what that call of evaluateChecks did
  logger,        \* the fields of a Logger: logLevel and logFile
  logCalls,      \* the calls a logger test has made on it
  console,       \* the lines written to the console
  logFileLines   \* the lines appended to the log file

vars == <<config, async, transport, now, batch, batchValue, results, cursor,
          startTime, req, reqPromise, probePromise, run, prevValue,
          headersObjects, sent, evalChecks, mockResponse, evalOutcome,
          logger, logCalls, console, logFileLines>>

\* the state of the checker, and the state of an evaluator test
checkerVars == <<config, async, transport, now, batch, batchValue, results,
                 cursor, startTime, req, reqPromise, probePromise, run, prevValue,
                 headersObjects, sent>>
requestVars == <<headersObjects, sent>>
evalVars == <<evalChecks, mockResponse, evalOutcome>>
logVars == <<logger, logCalls, console, logFileLines>>

Probes == 1..Len(config.urls)

\* ------------------------------------------------------------- input sets
UrlCfg(url, name, timeout, successCodes, checks) ==
  [url |-> url, name |-> name, timeout |-> timeout,
   successCodes |-> successCodes, checks |-> checks,
   method |-> Undef, headers |-> Undef, body |-> Undef, contentType |-> Undef]

\* a URL entry that says how to make the request; its headers are a
\* reference to a headers object, which URL entries may share
RequestCfg(url, method, headers, body, contentType) ==
  [url |-> url, name |-> Undef, timeout |-> Undef,
   successCodes |-> Undef, checks |-> Undef,
   method |-> method, headers |-> headers, body |-> body,
   contentType |-> contentType]

Ref(id) == [t |-> "ref", id |-> id]

ContentTypeName == <<"c", "o", "n", "t", "e", "n", "t", "-", "t", "y", "p", "e">>

\* the headers objects of the test configurations: one without a content
\* type, and ones with a content type under the names Content-Type and
\* content-type, the last one empty
HeaderObjects ==
  <<<<[k |-> <<"a", "c", "c", "e", "p", "t">>, v |-> Str(<<"*/*">>)]>>,
    <<[k |-> <<"C", "o", "n", "t", "e", "n", "t", "-", "T", "y", "p", "e">>,
       v |-> Str(<<"text/plain">>)]>>,
    <<[k |-> ContentTypeName, v |-> Str(<<"text/plain">>)]>>,
    <<[k |-> ContentTypeName, v |-> Str(<<>>)]>>>>

StatusCheck(operator, value) ==
  [type |-> "status_code", operator |-> operator, value |-> Str(value)]

ResponseTimeCheck(operator, value) ==
  [type |-> "response_time", operator |-> operator, value |-> Num(value)]

BodyCheck(operator, value) ==
  [type |-> "body", operator |-> operator, value |-> value]

HeaderCheck(name, operator, value) ==
  [type |-> "header", name |-> name, operator |-> operator, value |-> value]

JsonPathCheck(path, operator, value, element) ==
  [type |-> "jsonpath", path |-> path, operator |-> operator, value |-> value,
   element |-> element]

Response(statusCode, headers, body) ==
  [kind |-> "response", statusCode |-> statusCode, headers |-> headers, body |-> body]

NetError(message) == [kind |-> "error", message |-> message]

NetTimeout == [kind |-> "timeout"]

HtmlHeaders == <<[k |-> <<"c", "t">>, v |-> Str(<<"a">>)]>>

CookieHeaders == <<[k |-> <<"x">>, v |-> Arr(<<<<"a">>, <<"b">>>>)]>>

Ok200 == Response(Num(200), HtmlHeaders, <<"O", "K">>)

NotFound404 == Response(Num(404), CookieHeaders, <<>>)

NoStatus == Response(Undef, <<>>, <<"O">>)

Enotfound == NetError(<<"getaddrinfo ENOTFOUND">>)

SocketHangUp == <<"socket hang up">>

Globals == {[globalTimeout |-> Undef, globalSuccessCodes |-> Undef],
            [globalTimeout |-> Num(3000), globalSuccessCodes |-> Arr(<<404>>)]}

\* a URL entry together with the behaviour of the network for its request
Scenario(cfg, net) == [cfg |-> cfg, net |-> net]

Scenarios ==
  <<Scenario(UrlCfg("https://example.com", Str(<<"Example">>), Undef, Undef, Undef),
             Ok200),
    Scenario(UrlCfg("https://httpstat.us/404", Str(<<"HTTP 404">>), Undef, Undef,
                    Arr(<<ResponseTimeCheck("less_than", 1),
                          StatusCheck("equals", <<"2", "0", "0", "|", "4", "0", "4">>)>>)),
             NotFound404),
    Scenario(UrlCfg("https://example.com", Undef, Num(1), Undef, Undef),
             NetTimeout),
    Scenario(UrlCfg("https://this-domain-does-not-exist-123456789.com", Undef, Undef,
                    Arr(<<200>>), Undef),
             Enotfound),
    Scenario(UrlCfg("not-a-valid-url", Undef, Undef, Undef, Undef),
             Enotfound),
    Scenario(UrlCfg("https://httpstat.us/404", Undef, Undef, Arr(<<404>>), Arr(<<>>)),
             NotFound404)>>

\* all sequences over 1..k of length at most n
RECURSIVE IndexSeqs(_, _)
IndexSeqs(k, n) ==
  IF n = 0 THEN {<<>>}
  ELSE LET shorter == IndexSeqs(k, n - 1)
       IN shorter \cup {Append(q, x) : q \in shorter, x \in 1..k}

\* the state right after `new StatusChecker(config, options)`
InitWith(urls, nets, globals, mode) ==
  /\ config = [urls |-> urls,
               globalTimeout |-> globals.globalTimeout,
               globalSuccessCodes |-> globals.globalSuccessCodes]
  /\ transport = nets
  /\ async = mode
  /\ now = 0
  /\ batch = "idle"
  /\ batchValue = <<>>
  /\ results = <<>>
  /\ cursor = 0
  /\ startTime = [i \in 1..Len(urls) |-> 0]
  /\ req = [i \in 1..Len(urls) |-> "none"]
  /\ reqPromise = [i \in 1..Len(urls) |-> Unborn]
  /\ probePromise = [i \in 1..Len(urls) |-> Unborn]
  /\ run = 1
  /\ prevValue = <<>>
  /\ headersObjects = IF \E i \in 1..Len(urls) : Truthy(urls[i].headers)
                      THEN HeaderObjects ELSE <<>>
  /\ sent = <<>>

\* no evaluator test is running
NotCalled == [state |-> "not called"]
Returned(v) == [state |-> "returned", value |-> v]
Threw(e) == [state |-> "threw", error |-> e]

EvalIdle ==
  /\ evalChecks = <<>>
  /\ mockResponse = [statusCode |-> 0, headers |-> <<>>, body |-> <<>>,
                     responseTime |-> 0]
  /\ evalOutcome = NotCalled

\* no logger test is running (the output of the checker's own logger is not
\* part of the state)
LoggerIdle ==
  /\ logger = [logLevel |-> "info", logFile |-> Undef]
  /\ logCalls = <<>>
  /\ console = <<>>
  /\ logFileLines = <<>>

\* the globals of the test configuration
TestGlobals == [globalTimeout |-> Num(5000), globalSuccessCodes |-> Arr(<<200>>)]

Init ==
  \E pick \in IndexSeqs(Len(Scenarios), MaxUrls), mode \in BOOLEAN :
    /\ EvalIdle
    /\ LoggerIdle
    /\ InitWith([i \in 1..Len(pick) |-> Scenarios[pick[i]].cfg],
                [i \in 1..Len(pick) |-> Scenarios[pick[i]].net],
                TestGlobals, mode)

\* the checks a URL entry may list
CheckPool ==
  <<StatusCheck("equals", <<"2", "0", "0">>),
    StatusCheck("not_equals", <<"2", "0", "0", "|", " ", "4", "0", "4">>),
    StatusCheck("matches", <<"[">>),
    ResponseTimeCheck("less_than", 1),
    BodyCheck("contains", Str(<<"K">>)),
    HeaderCheck(<<"C", "T">>, "exists", Undef),
    [type |-> "bogus"]>>

SuccessCodeLists == <<Undef, Arr(<<>>), Arr(<<200, 404>>)>>

SingleNets == <<Ok200, NotFound404, NoStatus, Enotfound>>

\* one URL entry, with every list of at most MaxChecks checks of the pool
InitChecks ==
  \E pick \in IndexSeqs(Len(CheckPool), MaxChecks), given \in BOOLEAN,
     c \in 1..Len(SuccessCodeLists), g \in Globals, n \in 1..Len(SingleNets),
     mode \in BOOLEAN :
    /\ ~given => pick = <<>>
    /\ Len(pick) > 0 => c \in {1, 3}
    /\ EvalIdle
    /\ LoggerIdle
    /\ InitWith(<<UrlCfg("https://example.com", Str(<<"Example">>), Undef,
                         SuccessCodeLists[c],
                         IF given THEN Arr([k \in 1..Len(pick) |-> CheckPool[pick[k]]])
                         ELSE Undef)>>,
                <<SingleNets[n]>>, g, mode)

\* ------------------------------------------------------------ event loop
\* a promise reaction is queued: it runs before any further I/O event
MicrotaskPending ==
  \/ \E i \in Probes : IsSettled(reqPromise[i]) /\ probePromise[i].state = "pending"
  \/ /\ batch = "running"
     /\ async
     /\ \/ \E i \in Probes : probePromise[i].state = "rejected"
        \/ \A i \in Probes : probePromise[i].state = "fulfilled"
  \/ /\ batch = "running"
     /\ ~async
     /\ cursor \in Probes
     /\ IsSettled(probePromise[cursor])

\* obj[name] for a name the object has of its own
OwnValue(object, name) ==
  IF \E j \in 1..Len(object) : object[j].k = name
  THEN object[CHOOSE j \in 1..Len(object) : object[j].k = name].v
  ELSE Undef

\* const headers = urlConfig.headers || {}
HeadersOf(urlConfig, objects) ==
  IF Truthy(urlConfig.headers) THEN objects[urlConfig.headers.id] ELSE <<>>

\* urlConfig.body && urlConfig.contentType && !headers['content-type']
AddsContentType(urlConfig, headers) ==
  /\ Truthy(urlConfig.body)
  /\ Truthy(urlConfig.contentType)
  /\ ~Truthy(OwnValue(headers, ContentTypeName))

\* the headers object after the content type was added to it, or not
WithContentType(urlConfig, headers) ==
  IF AddsContentType(urlConfig, headers)
  THEN SetProp(headers, ContentTypeName, urlConfig.contentType)
  ELSE headers

\* the headers objects after makeRequest: the object of the URL entry is the
\* one that was written to
ObjectsAfter(urlConfig, objects, headers) ==
  IF Truthy(urlConfig.headers)
  THEN [objects EXCEPT ![urlConfig.headers.id] = headers]
  ELSE objects

\* urlConfig.method || 'GET'
MethodOf(urlConfig) == OrElse(urlConfig.method, Str(<<"GET">>))

\* the body written to the request
BodyWritten(urlConfig) ==
  IF Truthy(urlConfig.body)
       /\ MethodOf(urlConfig) \notin {Str(<<"GET">>), Str(<<"HEAD">>)}
  THEN urlConfig.body ELSE Undef

\* the request of probe i: the options handed to http.request and the body
RequestOf(i, urlConfig, headers) ==
  [run |-> run, probe |-> i, method |-> MethodOf(urlConfig),
   headers |-> headers, body |-> BodyWritten(urlConfig)]

Issued(objects, requests) == [objects |-> objects, sent |-> requests]

NoneIssued == Issued(headersObjects, sent)

IssueWith(issued, i, urlConfig, headers) ==
  Issued(ObjectsAfter(urlConfig, issued.objects, headers),
         Append(issued.sent, RequestOf(i, urlConfig, headers)))

\* makeRequest of probe i, up to req.end()
MakeRequest(issued, i) ==
  IssueWith(issued, i, config.urls[i],
            WithContentType(config.urls[i],
                            HeadersOf(config.urls[i], issued.objects)))

\* the requests of the URLs of S from i on, made in the order of the URLs
RECURSIVE MakeRequests(_, _, _)
MakeRequests(issued, i, S) ==
  IF i > Len(config.urls) THEN issued
  ELSE IF i \in S /\ UrlParses(config.urls[i].url)
  THEN MakeRequests(MakeRequest(issued, i), i + 1, S)
  ELSE MakeRequests(issued, i + 1, S)

\* checkUrl up to its await, for every URL of S: the start time is taken and
\* makeRequest's executor runs; it throws on a URL that does not parse and
\* otherwise issues the request (req.end())
StartProbes(S) ==
  /\ startTime' = [i \in Probes |-> IF i \in S THEN now ELSE startTime[i]]
  /\ req' = [i \in Probes |->
               IF i \in S /\ UrlParses(config.urls[i].url) THEN "inflight" ELSE req[i]]
  /\ reqPromise' = [i \in Probes |->
                      IF i \notin S THEN reqPromise[i]
                      ELSE IF UrlParses(config.urls[i].url) THEN Pending
                      ELSE Rejected(InvalidUrlMessage)]
  /\ probePromise' = [i \in Probes |-> IF i \in S THEN Pending ELSE probePromise[i]]
  /\ headersObjects' = MakeRequests(NoneIssued, 1, S).objects
  /\ sent' = MakeRequests(NoneIssued, 1, S).sent

\* the URLs whose checkUrl the map of checkAllAsync calls
AsyncStartSetFirstOnly == Probes \cap {1}

AsyncStartSet == Probes

\* the URLs whose checkUrl one iteration of the loop of checkAllSync calls
\* before it awaits: the URL at position c alone
SyncStartSetEager(c) == {c, c + 1} \cap Probes

SyncStartSetNone(c) == {}

SyncStartSet(c) == {c}

CheckAll ==
  /\ batch = "idle"
  /\ IF async
     THEN /\ StartProbes(AsyncStartSet)
          /\ batch' = "running"
          /\ UNCHANGED <<batchValue, cursor>>
     ELSE IF Probes = {}
     THEN /\ batch' = "resolved"
          /\ batchValue' = results
          /\ UNCHANGED <<cursor, startTime, req, reqPromise, probePromise>>
          /\ UNCHANGED requestVars
     ELSE /\ StartProbes(SyncStartSet(1))
          /\ cursor' = 1
          /\ batch' = "running"
          /\ UNCHANGED batchValue
  /\ UNCHANGED evalVars
  /\ UNCHANGED logVars
  /\ UNCHANGED <<config, async, transport, now, results, run, prevValue>>

\* res.statusCode || 0
StatusOrZero(v) == IF Truthy(v) THEN v.n ELSE 0

\* Array.isArray(value) ? value.join(', ') : value
HeaderValue(v) == IF v.t = "array" THEN Join(v.a, <<",", " ">>) ELSE v.s

\* the response callback's copy of res.headers, without the undefined values
ConvertHeaders(raw) ==
  LET Defined(h) == ~IsUndef(h.v)
      kept == SelectSeq(raw, Defined)
  IN [k \in 1..Len(kept) |-> [k |-> kept[k].k, v |-> HeaderValue(kept[k].v)]]

\* the value the 'end' handler resolves the request promise with
ReceivedResponse(net) ==
  [statusCode |-> StatusOrZero(net.statusCode),
   headers |-> ConvertHeaders(net.headers),
   body |-> net.body]

\* res.on('end'): the complete response arrived
ResponseEnd(i) ==
  /\ ~MicrotaskPending
  /\ req[i] = "inflight"
  /\ transport[i].kind = "response"
  /\ reqPromise' = [reqPromise EXCEPT
                      ![i] = Settle(@, Fulfilled(ReceivedResponse(transport[i])))]
  /\ req' = [req EXCEPT ![i] = "responded"]
  /\ UNCHANGED evalVars
  /\ UNCHANGED logVars
  /\ UNCHANGED requestVars
  /\ UNCHANGED <<config, async, transport, now, batch, batchValue, results, cursor,
                 startTime, probePromise, run, prevValue>>

\* req.on('error'): the request failed, or its socket was destroyed by the
\* timeout handler before a response arrived
ErrorEvent(i) ==
  /\ ~MicrotaskPending
  /\ \/ req[i] = "inflight" /\ transport[i].kind = "error"
     \/ req[i] = "destroyed"
  /\ LET message == IF req[i] = "destroyed" THEN SocketHangUp ELSE transport[i].message
     IN reqPromise' = [reqPromise EXCEPT ![i] = Settle(@, Rejected(message))]
  /\ req' = [req EXCEPT ![i] = "closed"]
  /\ UNCHANGED evalVars
  /\ UNCHANGED logVars
  /\ UNCHANGED requestVars
  /\ UNCHANGED <<config, async, transport, now, batch, batchValue, results, cursor,
                 startTime, probePromise, run, prevValue>>

\* the requests the 'timeout' handler of request i destroys
TimeoutDestroysAll(i) == Probes

TimeoutDestroys(i) == {i}

\* req.on('timeout'): the socket of request i was idle for the timeout, before
\* or after the response; the handler destroys the request and rejects
TimeoutEvent(i) ==
  /\ ~MicrotaskPending
  /\ \/ req[i] = "inflight" /\ transport[i].kind = "timeout"
     \/ req[i] = "responded"
  /\ LET message == TimeoutMessage(EffectiveTimeout(config.urls[i], config))
     IN reqPromise' = [reqPromise EXCEPT ![i] = Settle(@, Rejected(message))]
  /\ req' = [j \in Probes |->
               IF j \in TimeoutDestroys(i) /\ req[j] \in {"inflight", "responded"}
               THEN "destroyed" ELSE req[j]]
  /\ UNCHANGED evalVars
  /\ UNCHANGED logVars
  /\ UNCHANGED requestVars
  /\ UNCHANGED <<config, async, transport, now, batch, batchValue, results, cursor,
                 startTime, probePromise, run, prevValue>>

\* checkUrl after its await: the try branch on a response, the catch branch
\* on a rejection; the promise returned by checkUrl settles
Resume(i) ==
  /\ IsSettled(reqPromise[i])
  /\ probePromise[i].state = "pending"
  /\ probePromise' = [probePromise EXCEPT
                        ![i] = CheckUrlSettle(config.urls[i], config, reqPromise[i],
                                              now - startTime[i], now)]
  /\ UNCHANGED evalVars
  /\ UNCHANGED logVars
  /\ UNCHANGED requestVars
  /\ UNCHANGED <<config, async, transport, now, batch, batchValue, results, cursor,
                 startTime, req, reqPromise, run, prevValue>>

RECURSIVE ByCompletion(_, _)
ByCompletion(promises, S) ==
  IF S = {} THEN <<>>
  ELSE LET m == CHOOSE i \in S : \A j \in S :
                  \/ promises[i].value.timestamp < promises[j].value.timestamp
                  \/ /\ promises[i].value.timestamp = promises[j].value.timestamp
                     /\ i <= j
       IN <<promises[m].value>> \o ByCompletion(promises, S \ {m})

\* the values in the order in which the promises were fulfilled
PromiseAllValueByCompletion(promises) == ByCompletion(promises, 1..Len(promises))

\* the array Promise.all resolves with
PromiseAllValue(promises) == [i \in 1..Len(promises) |-> promises[i].value]

\* Promise.all(promises) in checkAllAsync settles
PromiseAll ==
  /\ batch = "running"
  /\ async
  /\ IF \E i \in Probes : probePromise[i].state = "rejected"
     THEN /\ batch' = "rejected"
          /\ UNCHANGED batchValue
     ELSE /\ \A i \in Probes : probePromise[i].state = "fulfilled"
          /\ batch' = "resolved"
          /\ batchValue' = PromiseAllValue(probePromise)
  /\ UNCHANGED evalVars
  /\ UNCHANGED logVars
  /\ UNCHANGED requestVars
  /\ UNCHANGED <<config, async, transport, now, results, cursor, startTime, req,
                 reqPromise, probePromise, run, prevValue>>

\* results.unshift(result)
PushResultFront(list, result) == <<result>> \o list

\* results.push(result)
PushResult(list, result) == Append(list, result)

\* checkAllSync after `await this.checkUrl(urlConfig)`: the result is pushed
\* and the loop calls checkUrl for the next URL, or returns results
SyncNext ==
  /\ batch = "running"
  /\ ~async
  /\ cursor \in Probes
  /\ IsSettled(probePromise[cursor])
  /\ IF probePromise[cursor].state = "rejected"
     THEN /\ batch' = "rejected"
          /\ UNCHANGED <<batchValue, results, cursor, startTime, req, reqPromise,
                         probePromise>>
          /\ UNCHANGED requestVars
     ELSE /\ results' = PushResult(results, probePromise[cursor].value)
          /\ IF cursor < Len(config.urls)
             THEN /\ StartProbes(SyncStartSet(cursor + 1))
                  /\ cursor' = cursor + 1
                  /\ UNCHANGED <<batch, batchValue>>
             ELSE /\ batch' = "resolved"
                  /\ batchValue' = results'
                  /\ UNCHANGED <<cursor, startTime, req, reqPromise, probePromise>>
                  /\ UNCHANGED requestVars
  /\ UNCHANGED evalVars
  /\ UNCHANGED logVars
  /\ UNCHANGED <<config, async, transport, now, run, prevValue>>

\* a millisecond passes
Tick ==
  /\ batch = "running"
  /\ now < MaxClock
  /\ now' = now + 1
  /\ UNCHANGED evalVars
  /\ UNCHANGED logVars
  /\ UNCHANGED requestVars
  /\ UNCHANGED <<config, async, transport, batch, batchValue, results, cursor,
                 startTime, req, reqPromise, probePromise, run, prevValue>>

\* a second StatusChecker is constructed over the same config in the other
\* mode, once the first one's checkAll has resolved
Rerun ==
  /\ batch = "resolved"
  /\ run = 1
  /\ run' = 2
  /\ prevValue' = batchValue
  /\ async' = ~async
  /\ now' = 0
  /\ batch' = "idle"
  /\ batchValue' = <<>>
  /\ results' = <<>>
  /\ cursor' = 0
  /\ startTime' = [i \in Probes |-> 0]
  /\ req' = [i \in Probes |-> "none"]
  /\ reqPromise' = [i \in Probes |-> Unborn]
  /\ probePromise' = [i \in Probes |-> Unborn]
  /\ UNCHANGED evalVars
  /\ UNCHANGED logVars
  /\ UNCHANGED requestVars
  /\ UNCHANGED <<config, transport>>

Next ==
  \/ CheckAll
  \/ \E i \in Probes : ResponseEnd(i)
  \/ \E i \in Probes : ErrorEvent(i)
  \/ \E i \in Probes : TimeoutEvent(i)
  \/ \E i \in Probes : Resume(i)
  \/ PromiseAll
  \/ SyncNext
  \/ Tick
  \/ Rerun

Spec == Init /\ [][Next]_vars

SpecChecks == InitChecks /\ [][Next]_vars

\* the first event of the request of probe i: the response is complete, the
\* request fails, or its socket is idle for the timeout
FirstEvent(i) ==
  /\ req[i] = "inflight"
  /\ \/ ResponseEnd(i)
     \/ ErrorEvent(i)
     \/ TimeoutEvent(i)

\* what the event loop runs once it is due: the call of checkAll, the
\* continuations of checkAll, and the second checker
Continuation ==
  \/ CheckAll
  \/ PromiseAll
  \/ SyncNext
  \/ Rerun

\* a checkUrl is waiting to go on after its await
ResumeDue ==
  \E i \in Probes : IsSettled(reqPromise[i]) /\ probePromise[i].state = "pending"

\* the event loop runs the continuation of checkUrl once it is due: weak
\* fairness of Resume, WF_vars(\E i \in Probes : Resume(i)), with ResumeDue
\* written for what enables a Resume step
ResumeFair ==
  []<>(~ResumeDue) \/ []<><<\E i \in Probes : Resume(i)>>_vars

\* the URL lists of the runs to completion, by their places in Scenarios: a
\* request that times out before one that is answered, an answered one
\* before one that fails, and a URL that does not parse before a time-out
LiveRuns == {<<3, 1>>, <<1, 4>>, <<5, 3>>}

InitLive ==
  \E pick \in LiveRuns, mode \in BOOLEAN :
    /\ EvalIdle
    /\ LoggerIdle
    /\ InitWith([i \in 1..Len(pick) |-> Scenarios[pick[i]].cfg],
                [i \in 1..Len(pick) |-> Scenarios[pick[i]].net],
                TestGlobals, mode)

\* every request has a first event, and the event loop runs what is due
SpecLive ==
  /\ InitLive
  /\ [][Next]_vars
  /\ WF_vars(Continuation)
  /\ WF_vars(\E i \in Probes : FirstEvent(i))
  /\ ResumeFair

\* ----------------------------------------------------------- long bodies
Repeat(c, n) == [k \in 1..n |-> c]

\* pairs of bodies at and beyond the two display limits: the bodies of a
\* pair are the same up to the limit; plain text whose last character decides
\* a contains check, and JSON documents whose value comes after a long run
\* of blanks
LongBodyPairs ==
  <<<<Repeat("a", ActualValueLimit), Repeat("a", ActualValueLimit)>>,
    <<Repeat("a", ActualValueLimit) \o <<"K">>,
      Repeat("a", ActualValueLimit) \o <<"Z">>>>,
    <<Repeat("a", BodyLimit), Repeat("a", BodyLimit) \o <<"K">>>>,
    <<Repeat("a", BodyLimit) \o <<"K">>, Repeat("a", BodyLimit) \o <<"Z">>>>,
    <<<<"{", "\"", "n", "\"", ":">> \o Repeat(" ", BodyLimit) \o <<"5", "}">>,
      <<"{", "\"", "n", "\"", ":">> \o Repeat(" ", BodyLimit) \o <<"6", "}">>>>>>

LongBodyChecks ==
  <<BodyCheck("contains", Str(<<"K">>)),
    JsonPathCheck(<<"n">>, "equals", Str(<<"5">>), Undef)>>

\* two URL entries with the same checks, answered with the bodies of a pair;
\* the first checker is concurrent, the second sequential
InitLongBodies ==
  \E b \in 1..Len(LongBodyPairs), mode \in {TRUE} :
    /\ EvalIdle
    /\ LoggerIdle
    /\ InitWith(<<UrlCfg("https://example.com", Str(<<"Example">>), Undef, Undef,
                         Arr(LongBodyChecks)),
                  UrlCfg("https://example.com", Str(<<"Example">>), Undef, Undef,
                         Arr(LongBodyChecks))>>,
                <<Response(Num(200), <<>>, LongBodyPairs[b][1]),
                  Response(Num(200), <<>>, LongBodyPairs[b][2])>>,
                TestGlobals, mode)

SpecLongBodies == InitLongBodies /\ [][Next]_vars

\* ---------------------------------------------------------- evaluator tests
\* An evaluator test builds a list of checks and a mock response and calls
\* evaluateChecks on them.
\* a header check whose configuration entry has no name
NamelessHeaderCheck == [type |-> "header", operator |-> "exists", value |-> Undef]

MockResponse(statusCode, headers, body, responseTime) ==
  [statusCode |-> statusCode, headers |-> headers, body |-> body,
   responseTime |-> responseTime]

\* the state when the test is about to call evaluateChecks
InitEvalWith(checks, response) ==
  /\ InitWith(<<>>, <<>>, TestGlobals, TRUE)
  /\ LoggerIdle
  /\ evalChecks = checks
  /\ mockResponse = response
  /\ evalOutcome = NotCalled

EvaluateCheckThrowsOnUnknown(check) ==
  \/ check.type = "header" /\ "name" \notin DOMAIN check
  \/ check.type \notin {"status_code", "header", "body", "jsonpath", "response_time"}

\* the statements of the evaluator outside every try block that can throw
\* on a check read from a configuration file: name.toLowerCase()
EvaluateCheckThrows(check) == check.type = "header" /\ "name" \notin DOMAIN check

TypeErrorMessage ==
  <<"Cannot read properties of undefined (reading 'toLowerCase')">>

\* const results = evaluator.evaluateChecks(checks, mockResponse)
EvaluateChecksCall ==
  /\ evalOutcome.state = "not called"
  /\ evalOutcome' =
       IF \E k \in 1..Len(evalChecks) : EvaluateCheckThrows(evalChecks[k])
       THEN Threw(TypeErrorMessage)
       ELSE Returned(EvaluateChecks(evalChecks, mockResponse))
  /\ UNCHANGED <<evalChecks, mockResponse>>
  /\ UNCHANGED checkerVars
  /\ UNCHANGED logVars

NextEval == EvaluateChecksCall

\* the checks of the evaluator tests: well-formed ones, ones with a pattern
\* that does not compile, ones with a status code that is no number, one of
\* an unknown type and one without its name
EvalPool ==
  <<StatusCheck("equals", <<"2", "0", "0">>),
    StatusCheck("equals", <<"a", "b", "c">>),
    StatusCheck("not_equals", <<"a", "b", "c">>),
    StatusCheck("matches", <<"[">>),
    HeaderCheck(<<"C", "T">>, "matches", Str(<<"[">>)),
    BodyCheck("not_matches", Str(<<"[">>)),
    BodyCheck("contains", Str(<<"n">>)),
    JsonPathCheck(<<"n">>, "equals", Str(<<"5">>), Undef),
    JsonPathCheck(<<"n">>, "matches", Str(<<"[">>), Undef),
    ResponseTimeCheck("less_than", 200),
    [type |-> "bogus"],
    NamelessHeaderCheck>>

JsonHeaders == <<[k |-> <<"c", "t">>, v |-> <<"j", "s", "o", "n">>]>>

EvalResponses ==
  <<MockResponse(200, JsonHeaders, <<"{", "\"", "n", "\"", ":", "5", "}">>, 100),
    MockResponse(404, JsonHeaders, <<"{", "\"", "n", "\"", ":", "5">>, 100),
    MockResponse(200, <<>>, <<>>, 300)>>

\* every list of at most MaxChecks checks of the pool, on every response
InitEvalLists ==
  \E pick \in IndexSeqs(Len(EvalPool), MaxChecks), r \in 1..Len(EvalResponses) :
    InitEvalWith([k \in 1..Len(pick) |-> EvalPool[pick[k]]], EvalResponses[r])

\* the status codes a check may list and a response may carry
CodePool == <<200, 301, 302, 404>>

\* the lists of one to MaxCodes codes of the pool
CodeLists ==
  {[k \in 1..Len(pick) |-> CodePool[pick[k]]] :
     pick \in IndexSeqs(Len(CodePool), MaxCodes) \ {<<>>}}

\* one status_code check listing codes joined by "|", on a response of
\* every status
InitEvalStatus ==
  \E codes \in CodeLists, operator \in {"equals", "not_equals"},
     c \in 1..Len(CodePool) :
    InitEvalWith(<<StatusCheck(operator, JoinCodes(codes))>>,
                 MockResponse(CodePool[c], <<>>, <<>>, 100))

Operators ==
  {"equals", "not_equals", "contains", "not_contains", "matches", "not_matches",
   "greater_than", "less_than", "exists", "not_exists"}

\* the values a check may compare with: none, the empty string, texts,
\* numerals and a pattern that does not compile
ExpectedPool ==
  <<Undef, Str(<<>>), Str(<<"a">>), Str(<<"5">>), Str(<<"7">>),
    Str(UndefinedText), Str(<<"[">>)>>

HeaderNames == {<<"C", "T">>, <<"c", "t">>, <<"X">>, <<"B">>}

HeaderPool ==
  <<[k |-> <<"c", "t">>, v |-> <<"a", "b">>],
    [k |-> <<"C", "T">>, v |-> <<"7">>],
    [k |-> <<"x">>, v |-> <<"a">>]>>

\* one header check, on a response with at most MaxHeaders headers of the pool
InitEvalHeader ==
  \E name \in HeaderNames, operator \in Operators, e \in 1..Len(ExpectedPool),
     pick \in IndexSeqs(Len(HeaderPool), MaxHeaders) :
    InitEvalWith(<<HeaderCheck(name, operator, ExpectedPool[e])>>,
                 MockResponse(200, [k \in 1..Len(pick) |-> HeaderPool[pick[k]]],
                              <<>>, 100))

BodyPool == <<<<>>, <<"7">>, <<"a", "5">>, <<" ", "6", " ">>>>

\* one body check, on a response with a body of the pool
InitEvalBody ==
  \E operator \in Operators, e \in 1..Len(ExpectedPool), b \in 1..Len(BodyPool) :
    InitEvalWith(<<BodyCheck(operator, ExpectedPool[e])>>,
                 MockResponse(200, <<>>, BodyPool[b], 100))

\* the elements of the array of a JSON body
ElementPool == <<Str(<<"d">>), Str(<<"t", "s">>), Num(5), Num(7), Null>>

JsonExpectedPool == <<Undef, Str(<<"d">>), Str(<<"5">>), Str(<<"6">>), Str(<<"[">>)>>

\* the element a jsonpath check may name: none, a keyword or an index
ElementChoices ==
  <<Undef, Str(<<"first">>), Str(<<"last">>), Str(<<"any">>), Str(<<"all">>),
    Num(0), Num(1), Num(MaxElements), Num(-1)>>

\* the body JSON.stringify({t: array, n: 5}) of a mock response
JsonBody(array) ==
  JsonStringify(Obj(<<[k |-> <<"t">>, v |-> Arr(array)],
                      [k |-> <<"n">>, v |-> Num(5)]>>))

\* one jsonpath check on the array t, a body with every array of at most
\* MaxElements elements of the pool
InitEvalJsonArray ==
  \E pick \in IndexSeqs(Len(ElementPool), MaxElements), operator \in Operators,
     e \in 1..Len(JsonExpectedPool), c \in 1..Len(ElementChoices) :
    InitEvalWith(<<JsonPathCheck(<<"t">>, operator, JsonExpectedPool[e],
                                 ElementChoices[c])>>,
                 MockResponse(200, <<>>,
                              JsonBody([k \in 1..Len(pick) |-> ElementPool[pick[k]]]),
                              100))

\* one jsonpath check on a number, on a member the body does not have, and
\* on the length of the array
InitEvalJsonScalar ==
  \E path \in {<<"n">>, <<"q">>, <<"t", ".", "l", "e", "n", "g", "t", "h">>},
     operator \in Operators, e \in 1..Len(JsonExpectedPool),
     c \in 1..Len(ElementChoices) :
    InitEvalWith(<<JsonPathCheck(path, operator, JsonExpectedPool[e],
                                 ElementChoices[c])>>,
                 MockResponse(200, <<>>, JsonBody(<<Num(5), Num(7)>>), 100))

InitEval ==
  \/ InitEvalLists
  \/ InitEvalStatus
  \/ InitEvalHeader
  \/ InitEvalBody
  \/ InitEvalJsonArray
  \/ InitEvalJsonScalar

SpecEval == InitEval /\ [][NextEval]_vars

\* ---------------------------------------------------------- JSON path tests
\* the documents of the jsonpath tests: nested objects and arrays, an empty
\* array, null, a number, numerals and other strings, a boolean
Member(key, value) == [k |-> key, v |-> value]

Slideshow ==
  Obj(<<Member(<<"s", "l", "i", "d", "e", "s", "h", "o", "w">>,
               Obj(<<Member(<<"s", "l", "i", "d", "e", "s">>, Arr(<<Obj(<<Member(<<"t", "i", "t", "l", "e">>, Str(<<"X">>))>>)>>))>>))>>)

Flat ==
  Obj(<<Member(<<"a">>,
               Num(1))>>)

Mixed ==
  Obj(<<Member(<<"t", "a", "g", "s">>,
               Arr(<<Str(<<"d", "e", "v">>), Arr(<<Str(<<"t", "s">>)>>), Obj(<<Member(<<"k">>, Str(<<"t", "s">>))>>)>>)),
        Member(<<"o">>,
               Obj(<<Member(<<"k">>, Str(<<"d", "e", "v">>))>>)),
        Member(<<"n", "o", "n", "e">>,
               Arr(<<>>)),
        Member(<<"z">>,
               Null),
        Member(<<"n">>,
               Num(5)),
        Member(<<"s">>,
               Str(<<"7">>)),
        Member(<<"b">>,
               Bool(TRUE)),
        Member(<<"w">>,
               Str(<<"a", "b", "c">>)),
        Member(<<"e">>,
               Str(<<>>))>>)

RootArray ==
  Arr(<<Str(<<"d", "e", "v">>), Num(5)>>)

Documents == <<Slideshow, Flat, Mixed, RootArray>>

\* the paths of the jsonpath tests: the segments a path names and three
\* spellings of it, with dots, with brackets and with a leading $
PathEntry(segments, spellings) == [segments |-> segments, spellings |-> spellings]

Paths ==
  <<PathEntry(<<<<"s", "l", "i", "d", "e", "s", "h", "o", "w">>, <<"s", "l", "i", "d", "e", "s">>, <<"0">>, <<"t", "i", "t", "l", "e">>>>,
              <<<<"s", "l", "i", "d", "e", "s", "h", "o", "w", ".", "s", "l", "i", "d", "e", "s", ".", "0", ".", "t", "i", "t", "l", "e">>,
                <<"s", "l", "i", "d", "e", "s", "h", "o", "w", ".", "s", "l", "i", "d", "e", "s", "[", "0", "]", ".", "t", "i", "t", "l", "e">>,
                <<"$", ".", "s", "l", "i", "d", "e", "s", "h", "o", "w", ".", "s", "l", "i", "d", "e", "s", "[", "0", "]", ".", "t", "i", "t", "l", "e">>>>),
    PathEntry(<<<<"a">>, <<"b">>, <<"c">>>>,
              <<<<"a", ".", "b", ".", "c">>,
                <<"$", ".", "a", ".", "b", ".", "c">>,
                <<"$", "a", "[", "b", "]", "[", "c", "]">>>>),
    PathEntry(<<<<"t", "a", "g", "s">>>>,
              <<<<"t", "a", "g", "s">>,
                <<"$", ".", "t", "a", "g", "s">>,
                <<"$", "[", "t", "a", "g", "s", "]">>>>),
    PathEntry(<<<<"t", "a", "g", "s">>, <<"1">>>>,
              <<<<"t", "a", "g", "s", ".", "1">>,
                <<"t", "a", "g", "s", "[", "1", "]">>,
                <<"$", ".", "t", "a", "g", "s", "[", "1", "]">>>>),
    PathEntry(<<<<"t", "a", "g", "s">>, <<"2">>>>,
              <<<<"t", "a", "g", "s", ".", "2">>,
                <<"t", "a", "g", "s", "[", "2", "]">>,
                <<"$", ".", "t", "a", "g", "s", "[", "2", "]">>>>),
    PathEntry(<<<<"t", "a", "g", "s">>, <<"2">>, <<"k">>>>,
              <<<<"t", "a", "g", "s", ".", "2", ".", "k">>,
                <<"t", "a", "g", "s", "[", "2", "]", ".", "k">>,
                <<"$", ".", "t", "a", "g", "s", "[", "2", "]", "[", "k", "]">>>>),
    PathEntry(<<<<"o">>>>,
              <<<<"o">>,
                <<"$", ".", "o">>,
                <<"[", "o", "]">>>>),
    PathEntry(<<<<"n", "o", "n", "e">>>>,
              <<<<"n", "o", "n", "e">>,
                <<"$", ".", "n", "o", "n", "e">>,
                <<"$", "n", "o", "n", "e">>>>),
    PathEntry(<<<<"z">>>>,
              <<<<"z">>,
                <<"$", ".", "z">>,
                <<"$", "z">>>>),
    PathEntry(<<<<"z">>, <<"k">>>>,
              <<<<"z", ".", "k">>,
                <<"$", ".", "z", ".", "k">>,
                <<"z", "[", "k", "]">>>>),
    PathEntry(<<<<"n">>>>,
              <<<<"n">>,
                <<"$", ".", "n">>,
                <<"$", "n">>>>),
    PathEntry(<<<<"s">>>>,
              <<<<"s">>,
                <<"$", ".", "s">>,
                <<"[", "s", "]">>>>),
    PathEntry(<<<<"b">>>>,
              <<<<"b">>,
                <<"$", ".", "b">>,
                <<"$", "b">>>>),
    PathEntry(<<<<"w">>>>,
              <<<<"w">>,
                <<"$", ".", "w">>,
                <<"$", "[", "w", "]">>>>),
    PathEntry(<<<<"e">>>>,
              <<<<"e">>,
                <<"$", ".", "e">>,
                <<"$", "e">>>>),
    PathEntry(<<<<"q">>>>,
              <<<<"q">>,
                <<"$", ".", "q">>,
                <<"[", "q", "]">>>>),
    PathEntry(<<<<"0">>>>,
              <<<<"0">>,
                <<"[", "0", "]">>,
                <<"$", "[", "0", "]">>>>)>>

\* the values the jsonpath tests compare with
DocExpectedPool ==
  <<Undef, Str(<<>>), Str(<<"t", "s">>), Str(<<"d", "e", "v">>), Str(<<"5">>),
    Str(<<"-", "1">>), Str(<<"X">>), Str(<<"[">>)>>

DocElements == <<Undef, Str(<<"last">>), Str(<<"any">>), Str(<<"all">>), Num(1)>>

\* one jsonpath check under each spelling of a path, on a document
InitEvalPaths ==
  \E d \in 1..Len(Documents), p \in 1..Len(Paths), operator \in Operators,
     e \in 1..Len(DocExpectedPool), c \in 1..Len(DocElements) :
    InitEvalWith([k \in 1..Len(Paths[p].spellings) |->
                    JsonPathCheck(Paths[p].spellings[k], operator,
                                  DocExpectedPool[e], DocElements[c])],
                 MockResponse(200, <<>>, JsonStringify(Documents[d]), 100))

SpecEvalPaths == InitEvalPaths /\ [][NextEval]_vars

\* ------------------------------------------------------------------ logger
\* private logLevels
LogLevels == [error |-> 0, warn |-> 1, info |-> 2, debug |-> 3]

\* this.logLevels[name] || 2
LevelOrInfo(name) ==
  IF name \in DOMAIN LogLevels /\ LogLevels[name] # 0 THEN LogLevels[name] ELSE 2

\* shouldLog
ShouldLog(logLevel, level) == LevelOrInfo(level) <= LevelOrInfo(logLevel)

\* the argument of the constructor: nothing, a level, or a Config
NoArgument == [kind |-> "none"]
LevelArgument(level) == [kind |-> "string", level |-> level]
ConfigArgument(logLevel, logFile) ==
  [kind |-> "config", logLevel |-> logLevel, logFile |-> logFile]

\* the level a string names (a level is one atom)
LevelName(v) == v.s[1]

\* new Logger(config)
NewLogger(arg) ==
  CASE arg.kind = "string" -> [logLevel |-> arg.level, logFile |-> Undef]
    [] arg.kind = "config" ->
         [logLevel |-> LevelName(OrElse(arg.logLevel, Str(<<"info">>))),
          logFile |-> arg.logFile]
    [] OTHER -> [logLevel |-> "info", logFile |-> Undef]

\* level.toUpperCase()
LevelTag(level) ==
  CASE level = "error" -> "ERROR"
    [] level = "warn" -> "WARN"
    [] level = "info" -> "INFO"
    [] level = "debug" -> "DEBUG"
    [] level = "trace" -> "TRACE"

\* `[${timestamp}] [${level.toUpperCase()}] ${message}`, the timestamp being
\* the clock reading
FormattedMessage(timestamp, level, message) ==
  <<"[">> \o IntToStr(timestamp) \o <<"] [", LevelTag(level), "] ">> \o message

\* consoleLog: the method of console that writes the line
ConsoleMethod(level) ==
  CASE level = "error" -> "error"
    [] level = "warn" -> "warn"
    [] level = "debug" -> "debug"
    [] OTHER -> "info"

ConsoleLine(method, text) == [method |-> method, text |-> text]

\* the line fileLog writes to the console when appending to the file throws
WriteFailed == ConsoleLine("error", <<"Failed to write to log file: ", "Error">>)

\* log(message, level): the line goes to the console and, when a log file is
\* configured, to the file, where appending succeeds or throws
LogTo(message, level, writable) ==
  /\ logCalls' = Append(logCalls, [level |-> level, message |-> message])
  /\ IF ShouldLog(logger.logLevel, level)
     THEN /\ console' =
               Append(console,
                      ConsoleLine(ConsoleMethod(level),
                                  FormattedMessage(now, level, message)))
                 \o (IF Truthy(logger.logFile) /\ ~writable
                     THEN <<WriteFailed>> ELSE <<>>)
          /\ logFileLines' =
               IF Truthy(logger.logFile) /\ writable
               THEN Append(logFileLines, FormattedMessage(now, level, message))
               ELSE logFileLines
     ELSE UNCHANGED <<console, logFileLines>>
  /\ UNCHANGED logger
  /\ UNCHANGED checkerVars
  /\ UNCHANGED evalVars

LogMessages == {<<"m">>}

\* logger.log(message, level) with a level of the table or another one
Log ==
  /\ Len(logCalls) < MaxLogs
  /\ \E message \in LogMessages, level \in {"error", "warn", "info", "debug", "trace"},
        writable \in BOOLEAN :
       /\ writable \/ Truthy(logger.logFile)
       /\ LogTo(message, level, writable)

\* logger.error(message), warn, info and debug
LogMethod ==
  /\ Len(logCalls) < MaxLogs
  /\ \E message \in LogMessages, method \in {"error", "warn", "info", "debug"},
        writable \in BOOLEAN :
       /\ writable \/ Truthy(logger.logFile)
       /\ LogTo(message, method, writable)

NextLogger == Log \/ LogMethod

\* the arguments a Logger is constructed with
LoggerArguments ==
  {NoArgument} \cup {LevelArgument(level) : level \in {"error", "warn", "info", "debug", "verbose"}}
    \cup {ConfigArgument(logLevel, logFile) :
            logLevel \in {Undef, Str(<<>>), Str(<<"error">>), Str(<<"warn">>),
                         Str(<<"debug">>)},
            logFile \in {Undef, Str(<<"status.log">>)}}

\* the state right after `new Logger(arg)`
InitLogger ==
  \E arg \in LoggerArguments :
    /\ InitWith(<<>>, <<>>, TestGlobals, TRUE)
    /\ EvalIdle
    /\ logger = NewLogger(arg)
    /\ logCalls = <<>>
    /\ console = <<>>
    /\ logFileLines = <<>>

SpecLogger == InitLogger /\ [][NextLogger]_vars

\* --------------------------------------------------------- request tests
Post == Str(<<"P", "O", "S", "T">>)

RequestBody == Str(<<"{", "}">>)

JsonType ==
  Str(<<"a", "p", "p", "l", "i", "c", "a", "t", "i", "o", "n", "/", "j", "s", "o", "n">>)

XmlType ==
  Str(<<"a", "p", "p", "l", "i", "c", "a", "t", "i", "o", "n", "/", "x", "m", "l">>)

\* URL entries with a method, headers, a body and a content type, each with
\* the behaviour of the network for its request; entries 2 and 6 refer to the
\* same headers object
RequestScenarios ==
  <<Scenario(RequestCfg("https://example.com", Post, Undef, RequestBody, JsonType),
             Ok200),
    Scenario(RequestCfg("https://example.com", Post, Ref(1), RequestBody, JsonType),
             Ok200),
    Scenario(RequestCfg("https://example.com", Post, Ref(2), RequestBody, JsonType),
             Enotfound),
    Scenario(RequestCfg("https://example.com", Post, Ref(3), RequestBody, XmlType),
             NotFound404),
    Scenario(RequestCfg("https://example.com", Post, Ref(4), RequestBody, JsonType),
             NetTimeout),
    Scenario(RequestCfg("https://example.com", Undef, Ref(1), Undef, Undef),
             Ok200)>>

InitRequests ==
  \E pick \in IndexSeqs(Len(RequestScenarios), MaxUrls), mode \in BOOLEAN :
    /\ EvalIdle
    /\ LoggerIdle
    /\ InitWith([i \in 1..Len(pick) |-> RequestScenarios[pick[i]].cfg],
                [i \in 1..Len(pick) |-> RequestScenarios[pick[i]].net],
                TestGlobals, mode)

SpecRequests == InitRequests /\ [][Next]_vars

\* ================================================================ properties
\* the network fails the request of URL i, or its URL does not parse
TransportFails(i) ==
  \/ ~UrlParses(config.urls[i].url)
  \/ transport[i].kind \in {"error", "timeout"}

\* the message of the transport failure of URL i
TransportMessage(i) ==
  IF ~UrlParses(config.urls[i].url) THEN InvalidUrlMessage
  ELSE IF transport[i].kind = "timeout"
  THEN TimeoutMessage(EffectiveTimeout(config.urls[i], config))
  ELSE transport[i].message

HasResult(i) == probePromise[i].state = "fulfilled"

ResultOf(i) == probePromise[i].value

\* C1: checkAll resolves with exactly one result per URL of the input list,
\* and result i is the result of URL i (its url, its name, the status code of
\* its own response), in either mode and whatever the completion order.
C1_ResultsInInputOrder ==
  batch = "resolved" =>
    /\ Len(batchValue) = Len(config.urls)
    /\ \A i \in Probes :
         /\ batchValue[i].url = config.urls[i].url
         /\ batchValue[i].name = config.urls[i].name
         /\ batchValue[i] = ResultOf(i)
         /\ batchValue[i].statusCode =
              IF TransportFails(i) THEN Undef
              ELSE Num(StatusOrZero(transport[i].statusCode))

\* concurrent mode resolved with two different URLs, the second completed first
C1_Witness ==
  /\ batch = "resolved"
  /\ async
  /\ Len(batchValue) = 2
  /\ config.urls[1].url # config.urls[2].url
  /\ batchValue[2].timestamp < batchValue[1].timestamp
  /\ batchValue[1].success
  /\ ~batchValue[2].success

\* the fields of a result the two modes are compared on
Verdict(r) == [success |-> r.success, statusCode |-> r.statusCode,
               checkResults |-> r.checkResults]

BothRunsResolved == run = 2 /\ batch = "resolved"

\* C2 as stated: after the same configuration ran in one mode and then in the
\* other with the same transport outcome per URL, every URL has the same
\* success flag, statusCode and checkResults in both.
C2_Original ==
  BothRunsResolved =>
    \A i \in Probes : Verdict(prevValue[i]) = Verdict(batchValue[i])

HasResponseTimeCheck(urlConfig) ==
  \E k \in 1..Len(EffectiveChecks(urlConfig, config)) :
    EffectiveChecks(urlConfig, config)[k].type = "response_time"

\* C2 amended: both modes give every URL the same statusCode and the same
\* result for every check that is not a response_time check; a URL without
\* response_time checks has the same success flag, checkResults and error.
C2_ModesAgree ==
  BothRunsResolved =>
    /\ Len(prevValue) = Len(batchValue)
    /\ \A i \in Probes :
         LET a == prevValue[i]
             b == batchValue[i]
         IN /\ a.statusCode = b.statusCode
            /\ a.url = b.url
            /\ IsUndef(a.checkResults) = IsUndef(b.checkResults)
            /\ ~IsUndef(a.checkResults) =>
                 /\ Len(a.checkResults.a) = Len(b.checkResults.a)
                 /\ \A k \in 1..Len(a.checkResults.a) :
                      \/ /\ a.checkResults.a[k].type = "response_time"
                         /\ b.checkResults.a[k].type = "response_time"
                      \/ a.checkResults.a[k] = b.checkResults.a[k]
            /\ ~HasResponseTimeCheck(config.urls[i]) =>
                 /\ Verdict(a) = Verdict(b)
                 /\ a.error = b.error

\* both modes ran over two URLs with different latencies, one URL succeeded
\* and one has a response_time check
C2_Witness ==
  /\ BothRunsResolved
  /\ Len(batchValue) = 2
  /\ batchValue[1].success
  /\ HasResponseTimeCheck(config.urls[2])
  /\ prevValue[1].responseTime # batchValue[1].responseTime
  /\ prevValue[2].responseTime # batchValue[2].responseTime

InFlight(i) == req[i] = "inflight" \/ reqPromise[i].state = "pending"

\* C3: in sequential mode at most one probe is in flight, and probe i+1 is
\* not started before probe i has its final result.
C3_SequentialOneAtATime ==
  ~async =>
    /\ Cardinality({i \in Probes : InFlight(i)}) <= 1
    /\ \A i \in Probes :
         (i > 1 /\ probePromise[i].state # "none") => HasResult(i - 1)

\* sequential mode: the second request is in flight after the first probe
\* ended in its own timeout
C3_Witness ==
  /\ ~async
  /\ Len(config.urls) = 2
  /\ InFlight(2)
  /\ HasResult(1)
  /\ transport[1].kind = "timeout"
  /\ ResultOf(1).error = Str(TimeoutMessage(EffectiveTimeout(config.urls[1], config)))

Started(i) ==
  /\ probePromise[i].state # "none"
  /\ UrlParses(config.urls[i].url) => req[i] # "none"

AloneResult(i, responseTime, timestamp) ==
  IF TransportFails(i)
  THEN FailureResult(config.urls[i], TransportMessage(i), responseTime, timestamp)
  ELSE SuccessResult(config.urls[i], config, ReceivedResponse(transport[i]),
                     responseTime, timestamp)

\* C5: checkAll never rejects, every probe's result is the one the probe has
\* when run alone, whatever happened to the other probes, and a resolved
\* checkAll carries all results.
C5_FailuresAreIsolated ==
  /\ batch # "rejected"
  /\ \A i \in Probes : probePromise[i].state # "rejected"
  /\ \A i \in Probes :
       HasResult(i) =>
         ResultOf(i) = AloneResult(i, ResultOf(i).responseTime, ResultOf(i).timestamp)
  /\ batch = "resolved" =>
       /\ Len(batchValue) = Len(config.urls)
       /\ \A i \in Probes : batchValue[i] = ResultOf(i)

\* a resolved batch in which a probe timed out first and the other probe,
\* still in flight at that time, succeeded afterwards
C5_Witness ==
  /\ batch = "resolved"
  /\ Len(batchValue) = 2
  /\ \E i, j \in Probes :
       /\ i # j
       /\ transport[i].kind = "timeout"
       /\ UrlParses(config.urls[i].url)
       /\ ~batchValue[i].success
       /\ batchValue[j].success
       /\ batchValue[i].timestamp < batchValue[j].timestamp
       /\ async

SucceededTransport(i) == HasResult(i) /\ ~TransportFails(i)

\* C7: on transport success the success flag is the conjunction of the passed
\* flags of the entries of checkResults.
C7_SuccessIsConjunction ==
  \A i \in Probes :
    SucceededTransport(i) =>
      LET r == ResultOf(i)
      IN r.success = (\A k \in 1..Len(r.checkResults.a) : r.checkResults.a[k].passed)

\* a result with two check results, the first failed and the second passed
C7_Witness ==
  \E i \in Probes :
    /\ SucceededTransport(i)
    /\ Len(ResultOf(i).checkResults.a) = 2
    /\ ~ResultOf(i).checkResults.a[1].passed
    /\ ResultOf(i).checkResults.a[2].passed
    /\ ~ResultOf(i).success

EmptyCheckList(i) == config.urls[i].checks = Arr(<<>>)

\* C8 as stated: a probe with an explicit empty check list succeeds on any
\* transport success, with empty checkResults.
C8_Original ==
  \A i \in Probes :
    (SucceededTransport(i) /\ EmptyCheckList(i)) =>
      /\ ResultOf(i).success
      /\ ResultOf(i).checkResults = Arr(<<>>)

\* the success codes in force for URL i: its own, else the global ones, else 200
CodesInForce(i) ==
  IF ~IsUndef(config.urls[i].successCodes) THEN config.urls[i].successCodes.a
  ELSE IF ~IsUndef(config.globalSuccessCodes) THEN config.globalSuccessCodes.a
  ELSE <<200>>

StatusIsOneOf(statusCode, codes) == \E k \in 1..Len(codes) : codes[k] = statusCode.n

\* C8 amended: a probe with an explicit empty check list is handled as a probe
\* without checks: exactly the default status_code check is evaluated, and
\* the probe succeeds iff the status code is one of the success codes.
C8_EmptyListGetsDefaultCheck ==
  \A i \in Probes :
    (SucceededTransport(i) /\ EmptyCheckList(i)) =>
      LET r == ResultOf(i)
      IN /\ Len(r.checkResults.a) = 1
         /\ r.checkResults.a[1].type = "status_code"
         /\ r.checkResults.a[1].expectedValue = Str(JoinCodes(CodesInForce(i)))
         /\ r.success = StatusIsOneOf(r.statusCode, CodesInForce(i))

\* a probe with an empty check list that fails on a complete response
C8_Witness ==
  \E i \in Probes :
    /\ SucceededTransport(i)
    /\ EmptyCheckList(i)
    /\ ~ResultOf(i).success
    /\ Len(ResultOf(i).checkResults.a) = 1

NoChecks(i) == IsUndef(config.urls[i].checks) \/ EmptyCheckList(i)

\* the response the checks of URL i are evaluated against
SnapshotOf(i) ==
  [statusCode |-> StatusOrZero(transport[i].statusCode),
   headers |-> ConvertHeaders(transport[i].headers),
   body |-> transport[i].body,
   responseTime |-> ResultOf(i).responseTime]

\* C9: without checks exactly one check is evaluated, status_code equals the
\* success codes in force joined by "|", and the probe succeeds iff the status
\* code is one of them; with checks, exactly the given checks are evaluated in
\* their order and the success codes have no part in the result.
C9_DefaultCheckOrGivenChecks ==
  \A i \in Probes :
    SucceededTransport(i) =>
      LET r == ResultOf(i)
          cr == r.checkResults.a
          given == config.urls[i].checks
      IN IF NoChecks(i)
         THEN /\ Len(cr) = 1
              /\ cr[1].type = "status_code"
              /\ cr[1].description =
                   <<"Status code ", "equals", " ">> \o JoinCodes(CodesInForce(i))
              /\ cr[1].expectedValue = Str(JoinCodes(CodesInForce(i)))
              /\ cr[1].actualValue = r.statusCode
              /\ r.success = StatusIsOneOf(r.statusCode, CodesInForce(i))
         ELSE /\ Len(cr) = Len(given.a)
              /\ \A k \in 1..Len(cr) : cr[k] = EvaluateCheck(given.a[k], SnapshotOf(i))
              /\ r.success = (\A k \in 1..Len(cr) : cr[k].passed)

\* no checks, own success codes 200 and 404 against global 404: status 200
\* succeeds
C9_Witness ==
  \E i \in Probes :
    /\ SucceededTransport(i)
    /\ IsUndef(config.urls[i].checks)
    /\ config.urls[i].successCodes = Arr(<<200, 404>>)
    /\ config.globalSuccessCodes = Arr(<<404>>)
    /\ ResultOf(i).statusCode = Num(200)
    /\ ResultOf(i).success

\* the error entry of one failed check
ErrorEntry(c) ==
  c.description \o <<" - Expected: ">> \o Render(c.expectedValue)
    \o <<", Actual: ">> \o Render(c.actualValue)

\* the entries of the failed checks among cr[k..], in order, joined by "; "
RECURSIVE FailedEntriesFrom(_, _)
FailedEntriesFrom(cr, k) ==
  IF k > Len(cr) THEN <<>>
  ELSE LET rest == FailedEntriesFrom(cr, k + 1)
       IN IF cr[k].passed THEN rest
          ELSE IF \A j \in (k + 1)..Len(cr) : cr[j].passed THEN ErrorEntry(cr[k])
          ELSE ErrorEntry(cr[k]) \o <<"; ">> \o rest

\* C10: on transport success error is present iff success is false, and then
\* it is the entries of exactly the failed checks, in the order of the checks.
C10_ErrorListsFailedChecks ==
  \A i \in Probes :
    SucceededTransport(i) =>
      LET r == ResultOf(i)
      IN /\ IsUndef(r.error) = r.success
         /\ ~r.success => r.error = Str(FailedEntriesFrom(r.checkResults.a, 1))

\* a result with a passed check followed by a failed one
C10_Witness ==
  \E i \in Probes :
    /\ SucceededTransport(i)
    /\ Len(ResultOf(i).checkResults.a) = 2
    /\ ResultOf(i).checkResults.a[1].passed
    /\ ~ResultOf(i).checkResults.a[2].passed
    /\ ~IsUndef(ResultOf(i).error)

\* ---------------------------------------------------------------------- C11
Called == evalOutcome.state # "not called"

ReturnedResults == evalOutcome.state = "returned"

\* the check has the fields its type reads before any try block
HasItsFields(check) == check.type = "header" => "name" \in DOMAIN check

\* C11: evaluateChecks returns exactly one result per input check, in input
\* order: for a list of n checks the output has length n, and the output at
\* position k is the result of evaluating check k alone.
C11_OneResultPerCheckInOrder ==
  (Called /\ \A k \in 1..Len(evalChecks) : HasItsFields(evalChecks[k])) =>
    /\ ReturnedResults
    /\ Len(evalOutcome.value) = Len(evalChecks)
    /\ \A k \in 1..Len(evalChecks) :
         evalOutcome.value[k] = EvaluateCheck(evalChecks[k], mockResponse)

C11_Witness ==
  /\ ReturnedResults
  /\ Len(evalChecks) = 2
  /\ evalOutcome.value[1].type = "jsonpath" /\ evalOutcome.value[1].passed
  /\ evalOutcome.value[2].type = "status_code" /\ ~evalOutcome.value[2].passed

\* ---------------------------------------------------------------------- C12
KnownTypes == {"status_code", "header", "body", "jsonpath", "response_time"}

RemoveAt(list, k) == SubSeq(list, 1, k - 1) \o SubSeq(list, k + 1, Len(list))

NonEmptyMessage(error) == error.t = "string" /\ Len(error.s) > 0

\* C12: a check of an unknown type yields exactly one result, of type
\* "unknown", not passed, with a non-empty error message; evaluateChecks
\* does not throw, and the other checks of the list get the results they get
\* in the list without the unknown check.
C12_UnknownTypeIsOneFailedResult ==
  \A k \in 1..Len(evalChecks) :
    (/\ Called
     /\ evalChecks[k].type \notin KnownTypes
     /\ \A j \in 1..Len(evalChecks) : HasItsFields(evalChecks[j])) =>
      /\ ReturnedResults
      /\ Len(evalOutcome.value) = Len(evalChecks)
      /\ evalOutcome.value[k].type = "unknown"
      /\ ~evalOutcome.value[k].passed
      /\ NonEmptyMessage(evalOutcome.value[k].error)
      /\ RemoveAt(evalOutcome.value, k)
           = EvaluateChecks(RemoveAt(evalChecks, k), mockResponse)

C12_Witness ==
  /\ ReturnedResults
  /\ Len(evalChecks) = 2
  /\ evalChecks[1].type \notin KnownTypes
  /\ evalOutcome.value[1].type = "unknown"
  /\ evalOutcome.value[2].type = "body" /\ evalOutcome.value[2].passed

\* ---------------------------------------------------------------------- C13
HasPattern(check) ==
  /\ check.type \in {"status_code", "header", "body", "jsonpath"}
  /\ check.operator \in {"matches", "not_matches"}

MalformedRegex(check) == HasPattern(check) /\ ~RegExpCompiles(OrEmpty(check.value))

UnparsableJson(check, response) ==
  check.type = "jsonpath" /\ ~JsonParse(response.body).ok

\* an optional sign and then digits only
IsIntegerLiteral(seg) ==
  LET d == IF Len(seg) > 0 /\ seg[1] \in {"-", "+"} THEN Tail(seg) ELSE seg
  IN Len(d) > 0 /\ \A k \in 1..Len(d) : IsDigit(d[k])

InvalidNumericLiteral(check) ==
  /\ check.type = "status_code"
  /\ check.operator \in {"equals", "not_equals"}
  /\ \E seg \in {Split(check.value.s, "|")[k] :
                   k \in 1..Len(Split(check.value.s, "|"))} :
       ~IsIntegerLiteral(Trim(seg))

\* C13: a check that hits a malformed regular expression, an unparsable JSON
\* body or an invalid numeric literal yields a result that is not passed and
\* carries an error message; evaluateChecks returns, and the other checks of
\* the list get the results they get without it.
C13_FailuresCarryAnError ==
  \A k \in 1..Len(evalChecks) :
    (/\ Called
     /\ \A j \in 1..Len(evalChecks) : HasItsFields(evalChecks[j])
     /\ \/ MalformedRegex(evalChecks[k])
        \/ UnparsableJson(evalChecks[k], mockResponse)
        \/ InvalidNumericLiteral(evalChecks[k])) =>
      /\ ReturnedResults
      /\ ~evalOutcome.value[k].passed
      /\ NonEmptyMessage(evalOutcome.value[k].error)
      /\ RemoveAt(evalOutcome.value, k)
           = EvaluateChecks(RemoveAt(evalChecks, k), mockResponse)

\* ---------------------------------------------------------------------- C14
\* C14: a status_code check whose value is a list of integer codes joined
\* by "|" passes with operator equals exactly when the response status is
\* one of the codes, and with not_equals exactly when it is none of them.
C14_StatusCodeList ==
  \A k \in 1..Len(evalChecks), codes \in CodeLists :
    (/\ ReturnedResults
     /\ evalChecks[k].type = "status_code"
     /\ evalChecks[k].operator \in {"equals", "not_equals"}
     /\ evalChecks[k].value = Str(JoinCodes(codes))) =>
      LET listed == \E j \in 1..Len(codes) : codes[j] = mockResponse.statusCode
      IN evalOutcome.value[k].passed
           = IF evalChecks[k].operator = "equals" THEN listed ELSE ~listed

C14_Witness ==
  /\ ReturnedResults
  /\ evalChecks = <<StatusCheck("equals", JoinCodes(<<200, 301>>))>>
  /\ mockResponse.statusCode = 301
  /\ evalOutcome.value[1].passed

\* ---------------------------------------------------------------------- C15
\* the headers of the response whose key is the name up to letter case
HeadersNamed(name) ==
  {j \in 1..Len(mockResponse.headers) :
     ToLowerCase(mockResponse.headers[j].k) = ToLowerCase(name)}

\* C15: header lookup is case-insensitive: a check for name n finds a
\* header exactly when some response header key k has
\* lowercase(n) = lowercase(k); exists passes exactly when one is found,
\* not_exists exactly when none is.
C15_HeaderLookupIgnoresCase ==
  \A c \in 1..Len(evalChecks) :
    (ReturnedResults /\ evalChecks[c].type = "header") =>
      LET named == HeadersNamed(evalChecks[c].name)
          r == evalOutcome.value[c]
      IN /\ named = {} => IsUndef(r.actualValue)
         /\ named # {} =>
              \E j \in named : r.actualValue = Str(mockResponse.headers[j].v)
         /\ evalChecks[c].operator = "exists" => (r.passed <=> named # {})
         /\ evalChecks[c].operator = "not_exists" => (r.passed <=> named = {})

C15_Witness ==
  /\ ReturnedResults
  /\ Len(evalChecks) = 1
  /\ evalChecks[1].type = "header"
  /\ evalChecks[1].name = <<"C", "T">>
  /\ evalChecks[1].operator = "exists"
  /\ Len(mockResponse.headers) = 1
  /\ mockResponse.headers[1].k = <<"c", "t">>
  /\ evalOutcome.value[1].passed

\* ---------------------------------------------------------------------- C16
ValueOperators == Operators \ {"exists", "not_exists"}

\* the comparison does not throw: the operator takes no pattern, or the
\* pattern compiles
Comparable(check) ==
  check.operator \in {"matches", "not_matches"} =>
    RegExpCompiles(OrEmpty(check.value))

C17_Original ==
  \A c \in 1..Len(evalChecks) :
    (/\ ReturnedResults
     /\ evalChecks[c].type = "body"
     /\ Comparable(evalChecks[c])) =>
      LET operator == evalChecks[c].operator
      IN evalOutcome.value[c].passed =
           CASE operator = "exists" -> Len(mockResponse.body) > 0
             [] operator = "not_exists" -> Len(mockResponse.body) = 0
             [] OTHER -> CompareValues(Str(mockResponse.body), operator,
                                       evalChecks[c].value).passed

\* C17: a body check passes with exists exactly when the body is non-empty
\* and with not_exists exactly when it is empty; with equals, not_equals,
\* contains, not_contains, matches and not_matches passed is
\* compare(body, operator, expected) on the raw body; with greater_than and
\* less_than it never passes.
C17_BodyOperators ==
  \A c \in 1..Len(evalChecks) :
    (/\ ReturnedResults
     /\ evalChecks[c].type = "body"
     /\ Comparable(evalChecks[c])) =>
      LET operator == evalChecks[c].operator
      IN evalOutcome.value[c].passed =
           CASE operator = "exists" -> Len(mockResponse.body) > 0
             [] operator = "not_exists" -> Len(mockResponse.body) = 0
             [] operator \in {"greater_than", "less_than"} -> FALSE
             [] OTHER -> CompareValues(Str(mockResponse.body), operator,
                                       evalChecks[c].value).passed

C17_Witness ==
  /\ ReturnedResults
  /\ evalChecks = <<BodyCheck("greater_than", Str(<<"5">>))>>
  /\ mockResponse.body = <<"7">>
  /\ ~evalOutcome.value[1].passed

\* ---------------------------------------------------------------------- C18
\* the body as displayed: whole up to the limit, else cut with an ellipsis
Displayed(body, limit) ==
  IF Len(body) <= limit THEN body ELSE SubSeq(body, 1, limit) \o <<"...">>

\* the text occurs somewhere in the whole body
OccursIn(text, body) ==
  \E p \in 0..(Len(body) - Len(text)) :
    \A q \in 1..Len(text) : body[p + q] = text[q]

\* the whole body is a JSON document whose member n is the number
HasMember(body, n) ==
  /\ JsonParse(body).ok
  /\ ExtractJsonPath(JsonParse(body).v, <<"n">>) = Num(n)

Extracted(check) == ExtractJsonPath(JsonParse(mockResponse.body).v, check.path)

ExtractsArray(check) ==
  /\ check.type = "jsonpath"
  /\ JsonParse(mockResponse.body).ok
  /\ Extracted(check).t = "array"

Satisfies(item, check) == CompareValues(item, check.operator, check.value).passed

IndexNamed(element, length) ==
  CASE IsUndef(element) -> 0
    [] element = Str(<<"first">>) -> 0
    [] element = Str(<<"last">>) -> length - 1
    [] element.t = "number" -> element.n

\* C20: for a jsonpath check whose extracted value is an array and whose
\* element is first (the default), last or a numeric index, the comparator
\* is applied to exactly that element: index 0, index length - 1, or the
\* given index; an index outside the array gives an absent value.  When the
\* extracted value is not an array the element is ignored and the comparator
\* is applied to the extracted value.
C20_SelectedElement ==
  \A c \in 1..Len(evalChecks) :
    (/\ ReturnedResults
     /\ evalChecks[c].type = "jsonpath"
     /\ JsonParse(mockResponse.body).ok
     /\ Comparable(evalChecks[c])) =>
      LET check == evalChecks[c]
          r == evalOutcome.value[c]
          extracted == Extracted(check)
          index == IndexNamed(check.element, Len(extracted.a))
      IN IF extracted.t # "array"
         THEN r.passed = Satisfies(extracted, check)
         ELSE check.element \notin {Str(<<"any">>), Str(<<"all">>)} =>
                IF index \in 0..(Len(extracted.a) - 1)
                THEN r.passed = Satisfies(extracted.a[index + 1], check)
                ELSE /\ r.passed = Satisfies(Undef, check)
                     /\ IsUndef(r.actualValue)

C20_Witness ==
  /\ ReturnedResults
  /\ Len(evalChecks) = 1
  /\ ExtractsArray(evalChecks[1])
  /\ Extracted(evalChecks[1]).a = <<Num(5), Str(<<"d">>)>>
  /\ evalChecks[1].element = Str(<<"last">>)
  /\ evalChecks[1].operator = "equals"
  /\ evalChecks[1].value = Str(<<"d">>)
  /\ evalOutcome.value[1].passed

\* ---------------------------------------------------------------------- C21
SubstringCheck(check) ==
  check.type = "jsonpath" /\ check.operator \in {"contains", "not_contains"}

NonScalar(v) == v.t \in {"array", "object"}

\* the verdict of the substring test of a check on a text
SubstringVerdict(check, text) ==
  IF check.operator = "contains" THEN OccursIn(OrEmpty(check.value), text)
  ELSE ~OccursIn(OrEmpty(check.value), text)

\* the value a check compares when its path extracts a value: the value
\* itself, or the element the check names when the value is an array
Compared(check, extracted) ==
  IF extracted.t # "array" THEN extracted
  ELSE IF IndexNamed(check.element, Len(extracted.a)) \in 0..(Len(extracted.a) - 1)
  THEN extracted.a[IndexNamed(check.element, Len(extracted.a)) + 1]
  ELSE Undef

\* C21 as stated: for a jsonpath check with operator contains or
\* not_contains whose path extracts an array or an object, the substring test
\* is made on the JSON rendering of the extracted value.
C21_Original ==
  \A c \in 1..Len(evalChecks) :
    (/\ ReturnedResults
     /\ SubstringCheck(evalChecks[c])
     /\ JsonParse(mockResponse.body).ok
     /\ NonScalar(Extracted(evalChecks[c]))) =>
      evalOutcome.value[c].passed
        = SubstringVerdict(evalChecks[c], JsonStringify(Extracted(evalChecks[c])))

\* C21: for a jsonpath check with operator contains or not_contains, the
\* value compared is the extracted value when that is no array and the
\* element the check names (first by default, last, or an index) when it is;
\* when the value compared is an array or an object the substring test is
\* made on its JSON rendering, which is also the actualValue reported.  With
\* element any or all on an array every element is tested on its String()
\* text, not on its rendering.
C21_RenderedForSubstring ==
  \A c \in 1..Len(evalChecks) :
    (/\ ReturnedResults
     /\ SubstringCheck(evalChecks[c])
     /\ JsonParse(mockResponse.body).ok) =>
      LET check == evalChecks[c]
          r == evalOutcome.value[c]
          extracted == Extracted(check)
          each == extracted.t = "array"
                    /\ check.element \in {Str(<<"any">>), Str(<<"all">>)}
      IN /\ (~each /\ NonScalar(Compared(check, extracted))) =>
              /\ r.passed = SubstringVerdict(check, JsonStringify(Compared(check, extracted)))
              /\ r.actualValue = Str(JsonStringify(Compared(check, extracted)))
         /\ (each /\ check.element = Str(<<"any">>)) =>
              (r.passed <=> \E k \in 1..Len(extracted.a) :
                              SubstringVerdict(check, ToStr(extracted.a[k])))
         /\ (each /\ check.element = Str(<<"all">>)) =>
              (r.passed <=> \A k \in 1..Len(extracted.a) :
                              SubstringVerdict(check, ToStr(extracted.a[k])))

\* an object whose rendering holds the text and whose String() text does not
C21_Witness ==
  /\ ReturnedResults
  /\ evalChecks[1].operator = "contains"
  /\ evalChecks[1].value = Str(<<"d", "e", "v">>)
  /\ JsonParse(mockResponse.body).ok
  /\ Extracted(evalChecks[1]).t = "object"
  /\ ~OccursIn(<<"d", "e", "v">>, ToStr(Extracted(evalChecks[1])))
  /\ evalOutcome.value[1].passed

\* ---------------------------------------------------------------------- C22
\* the document in the body of the response and the entry of the path of
\* the checks
TheDocument ==
  Documents[CHOOSE d \in 1..Len(Documents) :
              JsonStringify(Documents[d]) = mockResponse.body]

ThePath ==
  Paths[CHOOSE p \in 1..Len(Paths) :
          Paths[p].spellings = [k \in 1..Len(evalChecks) |-> evalChecks[k].path]]

\* the member or element of a value that a segment names, absent when the
\* value has none
Step(value, segment) ==
  CASE value.t = "object" /\ (\E j \in 1..Len(value.m) : value.m[j].k = segment) ->
         value.m[CHOOSE j \in 1..Len(value.m) : value.m[j].k = segment].v
    [] value.t = "array" /\ (\E j \in 1..Len(value.a) : IntToStr(j - 1) = segment) ->
         value.a[CHOOSE j \in 1..Len(value.a) : IntToStr(j - 1) = segment]
    [] OTHER -> Undef

\* the value reached from a value along segments
RECURSIVE Reached(_, _)
Reached(value, segments) ==
  IF Len(segments) = 0 THEN value
  ELSE IF value.t \in {"null", "undefined"} THEN Undef
  ELSE Reached(Step(value, Head(segments)), Tail(segments))

\* a value as a result reports it
Shown(v) == IF v.t \in {"array", "object", "null"} THEN Str(JsonStringify(v)) ELSE v

\* C22: a bracket index is a dot segment and a leading $ is optional: every
\* spelling of a path gives the same result on every document; the segments
\* are walked from the document root and the value reached is the value
\* compared (the element named when it is an array), absent as soon as a
\* segment is missing or the current value is null or absent, and no error
\* is raised.
C22_PathExtraction ==
  (ReturnedResults /\ \A c \in 1..Len(evalChecks) : Comparable(evalChecks[c])) =>
    \A c \in 1..Len(evalChecks) :
      LET check == evalChecks[c]
          r == evalOutcome.value[c]
          reached == Reached(TheDocument, ThePath.segments)
      IN /\ r.passed = evalOutcome.value[1].passed
         /\ r.actualValue = evalOutcome.value[1].actualValue
         /\ IsUndef(r.error)
         /\ IF reached.t = "array" /\ check.element \in {Str(<<"any">>), Str(<<"all">>)}
            THEN r.actualValue = Str(JsonStringify(reached))
            ELSE /\ r.actualValue = Shown(Compared(check, reached))
                 /\ check.operator = "exists" =>
                      (r.passed <=> Compared(check, reached).t \notin {"null", "undefined"})

\* slideshow.slides[0].title gives "X" under each spelling
C22_Witness ==
  /\ ReturnedResults
  /\ TheDocument = Slideshow
  /\ evalChecks[2].path = <<"s", "l", "i", "d", "e", "s", "h", "o", "w", ".",
                            "s", "l", "i", "d", "e", "s", "[", "0", "]", ".",
                            "t", "i", "t", "l", "e">>
  /\ evalChecks[2].operator = "equals"
  /\ evalChecks[2].value = Str(<<"X">>)
  /\ \A c \in 1..3 : /\ evalOutcome.value[c].passed
                     /\ evalOutcome.value[c].actualValue = Str(<<"X">>)

\* ---------------------------------------------------------------------- C23
\* a text that is a number: an optional sign and one or more digits
IsNumeral(text) ==
  LET digits == IF Len(text) > 0 /\ text[1] = "-" THEN Tail(text) ELSE text
  IN Len(digits) > 0 /\ \A k \in 1..Len(digits) : IsDigit(digits[k])

\* a non-numeric value: a string that is no number (the empty string
\* included), a boolean, null, or absent
NonNumeric(v) ==
  \/ v.t \in {"boolean", "null", "undefined"}
  \/ v.t = "string" /\ ~IsNumeral(v.s)

\* C23: for operators greater_than and less_than, whenever the value compared
\* or the expected value is non-numeric (a non-numeric string, a boolean,
\* null, an empty string, or absent) the comparison is false.
C23_NonNumericNeverPasses ==
  \A c \in 1..Len(evalChecks) :
    (/\ ReturnedResults
     /\ evalChecks[c].type = "jsonpath"
     /\ evalChecks[c].operator \in {"greater_than", "less_than"}
     /\ JsonParse(mockResponse.body).ok
     /\ ~(Extracted(evalChecks[c]).t = "array"
          /\ evalChecks[c].element \in {Str(<<"any">>), Str(<<"all">>)})
     /\ \/ NonNumeric(Compared(evalChecks[c], Extracted(evalChecks[c])))
        \/ NonNumeric(evalChecks[c].value)) =>
      ~evalOutcome.value[c].passed

\* ---------------------------------------------------------------------- C24
\* the positive operator of a negated operator
Positive(operator) ==
  CASE operator = "not_exists" -> "exists"
    [] operator = "not_equals" -> "equals"
    [] operator = "not_contains" -> "contains"
    [] operator = "not_matches" -> "matches"

Scalar(v) == v.t \in {"string", "number", "boolean", "null", "undefined"}

\* C24: each negated operator is the exact inverse of its positive operator:
\* for every actual value that is a string, a number, a boolean, null or
\* absent and every expected string whose pattern compiles, a check with
\* not_exists, not_equals, not_contains or not_matches passes exactly when
\* the comparator says no for exists, equals, contains or matches; and exists
\* holds exactly when the actual value is neither absent nor null.
C24_NegationIsInverse ==
  \A c \in 1..Len(evalChecks) :
    LET check == evalChecks[c]
        extracted == Extracted(check)
        actual == Compared(check, extracted)
    IN (/\ ReturnedResults
        /\ check.type = "jsonpath"
        /\ JsonParse(mockResponse.body).ok
        /\ Comparable(check)
        /\ ~(extracted.t = "array"
             /\ check.element \in {Str(<<"any">>), Str(<<"all">>)})
        /\ Scalar(actual)) =>
         LET r == evalOutcome.value[c]
         IN /\ check.operator \in {"not_exists", "not_equals", "not_contains",
                                   "not_matches"} =>
                 r.passed = ~CompareValues(actual, Positive(check.operator),
                                           check.value).passed
            /\ check.operator = "exists" =>
                 (r.passed <=> actual.t \notin {"undefined", "null"})
            /\ check.operator \in {"exists", "equals", "contains", "matches"} =>
                 r.passed = CompareValues(actual, check.operator, check.value).passed

\* the empty string exists: not_exists fails on it
C24_Witness ==
  /\ ReturnedResults
  /\ evalChecks[1].operator = "not_exists"
  /\ JsonParse(mockResponse.body).ok
  /\ Extracted(evalChecks[1]) = Str(<<>>)
  /\ ~evalOutcome.value[1].passed

\* ---------------------------------------------------------------------- C30
ExtractsEmptyArray(check) ==
  /\ check.type = "jsonpath"
  /\ JsonParse(mockResponse.body).ok
  /\ Extracted(check) = Arr(<<>>)

\* C30: for a jsonpath check whose path extracts an empty array, element all
\* passes for every operator and expected value, element any fails for
\* every operator and expected value, and with the default element the value
\* compared is absent, so that exists fails and not_exists passes.
C30_EmptyArray ==
  \A c \in 1..Len(evalChecks) :
    (ReturnedResults /\ ExtractsEmptyArray(evalChecks[c])) =>
      LET check == evalChecks[c]
          r == evalOutcome.value[c]
      IN /\ check.element = Str(<<"all">>) => r.passed /\ IsUndef(r.error)
         /\ check.element = Str(<<"any">>) => ~r.passed /\ IsUndef(r.error)
         /\ IsUndef(check.element) =>
              /\ IsUndef(r.actualValue)
              /\ check.operator = "exists" => ~r.passed
              /\ check.operator = "not_exists" => r.passed

\* element all passes on the empty array although nothing equals X
C30_Witness ==
  /\ ReturnedResults
  /\ ExtractsEmptyArray(evalChecks[1])
  /\ evalChecks[1].element = Str(<<"all">>)
  /\ evalChecks[1].operator = "equals"
  /\ evalChecks[1].value = Str(<<"X">>)
  /\ evalOutcome.value[1].passed

\* ---------------------------------------------------------------------- C26
KnownLevels == {"error", "warn", "info", "debug"}

\* the severity rank of a level: error < warn < info < debug
Rank(level) ==
  CASE level = "error" -> 0
    [] level = "warn" -> 1
    [] level = "info" -> 2
    [] level = "debug" -> 3

\* the console line of a call
LineOf(call) ==
  ConsoleLine(ConsoleMethod(call.level),
              FormattedMessage(now, call.level, call.message))

\* the lines on the console that are messages of the four levels
MessagesEmitted ==
  LET IsMessage(line) ==
        \E level \in KnownLevels, message \in LogMessages :
          line = LineOf([level |-> level, message |-> message])
  IN SelectSeq(console, IsMessage)

\* the calls made whose level ranks at most the logger's level
CallsWithinLevel ==
  LET Within(call) ==
        call.level \in KnownLevels /\ Rank(call.level) <= Rank(logger.logLevel)
  IN SelectSeq(logCalls, Within)

\* C26: a logger configured at one of the four levels emits a message
\* exactly when the rank of the message's level is at most the rank of the
\* configured level, with error < warn < info < debug: the messages on the
\* console are the calls within the level, in order.
C26_EmitsByRank ==
  logger.logLevel \in KnownLevels =>
    MessagesEmitted = [k \in 1..Len(CallsWithinLevel) |-> LineOf(CallsWithinLevel[k])]

\* the headers the configuration gives URL entry i, as they were written
ExplicitHeaders(i) ==
  IF Truthy(config.urls[i].headers) THEN HeaderObjects[config.urls[i].headers.id]
  ELSE <<>>

\* a content-type header, under any capitalisation of the name
NamesContentType(headers) ==
  \E j \in 1..Len(headers) : ToLowerCase(headers[j].k) = ContentTypeName

\* C25: the request of a probe with a body and a contentType carries the
\* probe's explicit headers as they are when they name a content type under
\* any capitalisation, and the explicit headers plus one content-type header
\* with the value of contentType when they name none
C25_ContentTypeAddedIffNone ==
  \A k \in 1..Len(sent) :
    LET urlConfig == config.urls[sent[k].probe]
        explicit == ExplicitHeaders(sent[k].probe)
    IN Truthy(urlConfig.body) /\ Truthy(urlConfig.contentType) =>
         sent[k].headers =
           IF NamesContentType(explicit) THEN explicit
           ELSE Append(explicit, [k |-> ContentTypeName, v |-> urlConfig.contentType])

\* the headers objects as the configuration was written
ConfiguredObjects ==
  IF \E i \in Probes : Truthy(config.urls[i].headers) THEN HeaderObjects ELSE <<>>

\* the requests of probe i in run r
RequestsOf(i, r) ==
  LET OfProbe(request) == request.probe = i /\ request.run = r
  IN SelectSeq(sent, OfProbe)

\* C28: running the probes leaves the headers objects of the configuration
\* as they were written, the second run sends the headers of the first for
\* every probe, and a probe without a contentType sends its explicit headers
\* whatever the probes sharing its headers object do
C28_ConfigurationUnchanged ==
  /\ headersObjects = ConfiguredObjects
  /\ \A i \in Probes :
       RequestsOf(i, 1) # <<>> /\ RequestsOf(i, 2) # <<>> =>
         RequestsOf(i, 1)[1].headers = RequestsOf(i, 2)[1].headers
  /\ \A k \in 1..Len(sent) :
       ~Truthy(config.urls[sent[k].probe].contentType) =>
         sent[k].headers = ExplicitHeaders(sent[k].probe)

\* probe i has started in the current run
HasStarted(i) == probePromise[i].state # "none"

\* the probes of the current run made no more than one request each, and the
\* probes of a finished first run as many as the started ones of this run
RequestsMade(count(_)) ==
  /\ \A i \in Probes : HasStarted(i) => Len(RequestsOf(i, run)) = count(i)
  /\ \A i \in Probes : ~HasStarted(i) => RequestsOf(i, run) = <<>>
  /\ run = 2 => \A i \in Probes : Len(RequestsOf(i, 1)) = count(i)

\* the result of a finished probe is the one checkUrl makes of the outcome
\* its request promise has, at some time of the run
ResultFromRequest(i) ==
  IsSettled(probePromise[i]) =>
    /\ IsSettled(reqPromise[i])
    /\ \E responseTime \in 0..MaxClock, timestamp \in 0..MaxClock :
         probePromise[i] = CheckUrlSettle(config.urls[i], config, reqPromise[i],
                                          responseTime, timestamp)

\* the result list of a resolved checkAll has the result of every probe, once
OneResultEach ==
  batch = "resolved" =>
    /\ Len(batchValue) = Len(config.urls)
    /\ \A i \in Probes : batchValue[i] = probePromise[i].value

\* within a run, a settled request promise and a settled result stay what
\* they are whatever event follows, no request is made for a started probe,
\* and a request that has had an event is not in flight again
NothingAfterFirstEvent ==
  run' = run =>
    \A i \in Probes :
      /\ IsSettled(reqPromise[i]) => reqPromise'[i] = reqPromise[i]
      /\ IsSettled(probePromise[i]) => probePromise'[i] = probePromise[i]
      /\ HasStarted(i) => RequestsOf(i, run)' = RequestsOf(i, run)
      /\ req[i] \notin {"none", "inflight"} => req'[i] # "inflight"

OneRequest(i) == IF i \in Probes THEN 1 ELSE 0

RequestIfUrlParses(i) == IF UrlParses(config.urls[i].url) THEN 1 ELSE 0

\* C27 as stated: every started probe has made exactly one request in its
\* run, has one result fixed by the first event of the request, and no later
\* event changes the result, adds a result or makes a request
C27_Original ==
  /\ [](RequestsMade(OneRequest) /\ OneResultEach
          /\ \A i \in Probes : ResultFromRequest(i))
  /\ [][NothingAfterFirstEvent]_vars

\* C27: a started probe has made exactly one request in its run when its URL
\* parses and none when it does not, has one result fixed by the first of
\* the outcomes of its request promise, and no later event changes the
\* result, adds a result or makes a request
C27_OneLinearPath ==
  /\ [](OneResultEach /\ RequestsMade(RequestIfUrlParses)
          /\ \A i \in Probes : ResultFromRequest(i))
  /\ [][NothingAfterFirstEvent]_vars

\* one request timed out and then had the error of its destroyed socket,
\* another had its response and then timed out, and both probes have results
C27_Witness ==
  \E i, j \in Probes :
    /\ transport[i].kind = "timeout"
    /\ req[i] = "closed"
    /\ reqPromise[i].state = "rejected"
    /\ probePromise[i].state = "fulfilled"
    /\ req[j] \in {"destroyed", "closed"}
    /\ reqPromise[j].state = "fulfilled"
    /\ probePromise[j].state = "fulfilled"
    /\ Len(RequestsOf(i, run)) = 1

\* checkAll has resolved with one result for every URL, every probe finished
\* with a result
FullResultList ==
  /\ batch = "resolved"
  /\ Len(batchValue) = Len(config.urls)
  /\ \A i \in Probes : probePromise[i].state = "fulfilled"

\* in sequential mode the request of probe i has timed out and probe i is
\* not the last one
TimedOutBeforeOthers(i) ==
  /\ ~async
  /\ i \in Probes
  /\ i < Len(config.urls)
  /\ req[i] = "destroyed"
  /\ transport[i].kind = "timeout"

\* C29: when every request has a first event, a checkAll that was called
\* resolves with the full result list in concurrent and in sequential mode,
\* and in sequential mode the probe after one that timed out gets its result
C29_EveryProbeFinishes ==
  /\ \A mode \in BOOLEAN :
       (batch = "running" /\ async = mode) ~> (FullResultList /\ async = mode)
  /\ \A i \in 1..MaxUrls :
       TimedOutBeforeOthers(i) ~> (i + 1 \in Probes /\ IsSettled(probePromise[i + 1]))

\* sequential mode resolved with the full list although the first of two
\* requests timed out
C29_Witness ==
  /\ FullResultList
  /\ ~async
  /\ Len(config.urls) = 2
  /\ transport[1].kind = "timeout"
  /\ req[1] \in {"destroyed", "closed"}

====
